---- MODULE Spec2Model ----
(***************************************************************************)
(* Model of run.py, the one-shot reporting script of gdpr-impact-analysis: *)
(* load the tables, then run the chart blocks in program order.            *)
(*                                                                         *)
(* Nine specifications:                                                    *)
(*   Spec          the chart blocks that derive series from the GERD,      *)
(*                 traffic, usage and cloud tables: graphs 5, 19, 20, 22,  *)
(*                 24a, 24b and 24c in program order,                      *)
(*   SpecFold      the cumulative-index loop on any Value column,          *)
(*   SpecReshape   prepare_oecd_data on a wide table, then on its output,  *)
(*   SpecAggregate the filter/groupby/sort pipeline of graph 15 on a long  *)
(*                 table and on a reordering of its rows,                  *)
(*   SpecRun       the whole run at the level of files and figures:        *)
(*                 load_data, then every figure of the script in order,    *)
(*   SpecRunFair   SpecRun, the interpreter never stopping by itself,      *)
(*   SpecOrder     the same run with the blocks in another order,          *)
(*   SpecTimeline  add_regulation_lines, one loop iteration at a time,     *)
(*   SpecLayout    the outlines of a choropleth: normalize_geometry on     *)
(*                 the three countries, then their placement side by side. *)
(*                                                                         *)
(* Numbers.  A pandas cell is a float64 or a string.  A cell is modelled   *)
(* as a record [k, n, d, s]:                                               *)
(*   k = "fin"  the finite number n/d (d > 0, lowest terms),               *)
(*   k = "inf"  +infinity (n = 1) or -infinity (n = -1),                   *)
(*   k = "nan"  NaN, pandas' missing marker,                               *)
(*   k = "str"  the text s, a sequence of characters.                      *)
(* Arithmetic follows IEEE-754 for the special values (x/0, 0/0, inf-inf)  *)
(* and is exact on finite values: binary rounding is not modelled.         *)
(***************************************************************************)
EXTENDS Integers, Sequences, FiniteSets, TLC

VARIABLES
    pc,        \* position in the script: the next chart block to run
    data,      \* the dictionary load_data() returns, one table per key
    df_gerd,   \* the script's global df_gerd: the reshaped GERD table
    out,       \* what each chart block has handed to the plotting layer
    again,     \* outcome of feeding prepare_oecd_data its own output
    cd,        \* country_data of the cumulative-index loop (Value, Cumulative_Index)
    i,         \* loop variable i of the cumulative-index loop
    df_clean,  \* the script's latest aggregated long table (df_*_clean)
    shuffled,  \* a second run of graph 15 on the same rows in another order
    blk,       \* SpecRun: position of the current figure in the script
    figs,      \* pyplot's open figures, the current figure last
    opened,    \* number of figures opened so far (figure numbers are 1..opened)
    written,   \* the PNG artifacts written so far, in order
    err,       \* "none", or the exception that ended the run
    missing,   \* the input files that do not exist
    stdout,    \* the lines printed so far
    order,     \* the order the figures' blocks are executed in (indices of Script)
    ax,        \* the artists add_regulation_lines has put on its axes
    start_year, \* add_regulation_lines' parameter
    gdfs       \* create_choropleth_comparison's outlines, read and normalised

\* pyplot, the file system and the console
lifecycle == <<blk, figs, opened, written, err, missing, stdout, order>>
\* the axes add_regulation_lines draws on, the outlines of a choropleth
annotation == <<ax, start_year, gdfs>>

vars == <<pc, data, df_gerd, out, again, cd, i, df_clean, shuffled,
          blk, figs, opened, written, err, missing, stdout, order, ax, start_year,
          gdfs>>

----------------------------------------------------------------------------
(* Bounds of the model *)

\* longest growth series the cumulative-index loop is run on
MaxLen == 4
\* most rows in a long-format input table
MaxRows == 3
\* most year columns in a wide (OECD) input table
MaxCols == 3

----------------------------------------------------------------------------
(* float64 values *)

NaN == [k |-> "nan", n |-> 0, d |-> 1, s |-> <<>>]
PInf == [k |-> "inf", n |-> 1, d |-> 1, s |-> <<>>]
NInf == [k |-> "inf", n |-> -1, d |-> 1, s |-> <<>>]
Str(t) == [k |-> "str", n |-> 0, d |-> 1, s |-> t]

Abs(x) == IF x < 0 THEN -x ELSE x
Sign(x) == IF x < 0 THEN -1 ELSE IF x > 0 THEN 1 ELSE 0

RECURSIVE Gcd(_, _)
Gcd(a, b) == IF b = 0 THEN a ELSE Gcd(b, a % b)

\* the finite number n/d, d # 0, in lowest terms with a positive denominator
Fin(n, d) ==
    LET g == Gcd(Abs(n), Abs(d))
        sg == IF d < 0 THEN -1 ELSE 1
    IN  [k |-> "fin", n |-> (sg * n) \div g, d |-> Abs(d) \div g, s |-> <<>>]

Num(n) == Fin(n, 1)
IsFin(x) == x.k = "fin"
IsInf(x) == x.k = "inf"
\* np.isnan / pandas isna on a float cell
IsNaN(x) == x.k = "nan"
SignOf(x) == IF IsInf(x) THEN x.n ELSE Sign(x.n)
InfOf(sg) == IF sg < 0 THEN NInf ELSE PInf

FAdd(x, y) ==
    IF IsNaN(x) \/ IsNaN(y) THEN NaN
    ELSE IF IsInf(x) /\ IsInf(y) THEN (IF x.n = y.n THEN x ELSE NaN)
    ELSE IF IsInf(x) THEN x
    ELSE IF IsInf(y) THEN y
    ELSE Fin(x.n * y.d + y.n * x.d, x.d * y.d)

FNeg(x) ==
    IF IsNaN(x) THEN NaN
    ELSE IF IsInf(x) THEN InfOf(-x.n)
    ELSE Fin(-x.n, x.d)

FSub(x, y) == FAdd(x, FNeg(y))

FMul(x, y) ==
    IF IsNaN(x) \/ IsNaN(y) THEN NaN
    ELSE IF IsInf(x) \/ IsInf(y)
         THEN (IF SignOf(x) * SignOf(y) = 0 THEN NaN ELSE InfOf(SignOf(x) * SignOf(y)))
    ELSE Fin(x.n * y.n, x.d * y.d)

FDiv(x, y) ==
    IF IsNaN(x) \/ IsNaN(y) THEN NaN
    ELSE IF IsInf(x) THEN (IF IsInf(y) THEN NaN
                           ELSE InfOf(x.n * (IF y.n < 0 THEN -1 ELSE 1)))
    ELSE IF IsInf(y) THEN Num(0)
    ELSE IF y.n = 0 THEN (IF x.n = 0 THEN NaN ELSE InfOf(x.n))
    ELSE Fin(x.n * y.d, x.d * y.n)

\* x < y and x >= y on floats: every comparison with NaN is false
FLt(x, y) ==
    /\ ~IsNaN(x)
    /\ ~IsNaN(y)
    /\ IF IsInf(x) THEN x.n < 0 /\ y # x
       ELSE IF IsInf(y) THEN y.n > 0
       ELSE x.n * y.d < y.n * x.d

FGe(x, y) == ~IsNaN(x) /\ ~IsNaN(y) /\ ~FLt(x, y)

----------------------------------------------------------------------------
(* The cumulative-index loop of graphs 19, 19a, 19b, 19c and 23 *)

BaseIndex == 100

\* country_data['Cumulative_Index'] = 100.0: the whole column is set at once
InitIndexColumn(value) == [j \in 1..Len(value) |-> Num(BaseIndex)]

\* the loop body without its isnan guard
FoldStepNoGuard(value, index, j) ==
    [index EXCEPT ![j] = FMul(index[j - 1], FAdd(Num(1), FDiv(value[j], Num(100))))]

\* the loop body chaining from the base value instead of the previous index
FoldStepFromBase(value, index, j) ==
    IF ~IsNaN(value[j])
    THEN [index EXCEPT ![j] = FMul(Num(BaseIndex), FAdd(Num(1), FDiv(value[j], Num(100))))]
    ELSE index

\* one iteration of `for i in range(1, len(country_data))`; j is the 1-based
\* position of row i
FoldStep(value, index, j) ==
    IF ~IsNaN(value[j])
    THEN [index EXCEPT ![j] = FMul(index[j - 1], FAdd(Num(1), FDiv(value[j], Num(100))))]
    ELSE index

RECURSIVE FoldFrom(_, _, _)
FoldFrom(value, index, j) ==
    IF j > Len(value) THEN index
    ELSE FoldFrom(value, FoldStep(value, index, j), j + 1)

\* the whole loop: the Cumulative_Index column that is plotted
CumulativeIndex(value) == FoldFrom(value, InitIndexColumn(value), 2)

----------------------------------------------------------------------------
(* Text and pd.to_numeric(..., errors='coerce') *)

\* A text is a sequence of characters; a chunk that holds no digit, sign or
\* point (a word such as "Year") is written as one element.
Digits == {"0", "1", "2", "3", "4", "5", "6", "7", "8", "9"}

DigitVal(c) ==
    CASE c = "0" -> 0 [] c = "1" -> 1 [] c = "2" -> 2 [] c = "3" -> 3 [] c = "4" -> 4
      [] c = "5" -> 5 [] c = "6" -> 6 [] c = "7" -> 7 [] c = "8" -> 8 [] c = "9" -> 9

RECURSIVE Pow10(_)
Pow10(e) == IF e = 0 THEN 1 ELSE 10 * Pow10(e - 1)

AllDigits(t) == \A j \in 1..Len(t) : t[j] \in Digits

\* the natural number a digit string denotes, most significant digit first
RECURSIVE DigitsVal(_)
DigitsVal(t) ==
    IF t = <<>> THEN 0
    ELSE 10 * DigitsVal(SubSeq(t, 1, Len(t) - 1)) + DigitVal(t[Len(t)])

\* an unsigned decimal: digits, optionally one point; at least one digit
ParseUnsigned(t) ==
    LET dots == {j \in 1..Len(t) : t[j] = "."}
    IN  IF dots = {}
        THEN (IF t # <<>> /\ AllDigits(t) THEN Num(DigitsVal(t)) ELSE NaN)
        ELSE LET p == CHOOSE j \in dots : TRUE
                 ip == SubSeq(t, 1, p - 1)
                 fp == SubSeq(t, p + 1, Len(t))
             IN  IF Cardinality(dots) = 1 /\ AllDigits(ip) /\ AllDigits(fp)
                    /\ Len(ip) + Len(fp) > 0
                 THEN Fin(DigitsVal(ip) * Pow10(Len(fp)) + DigitsVal(fp), Pow10(Len(fp)))
                 ELSE NaN

ParseNumber(t) ==
    IF t # <<>> /\ t[1] = "-" THEN FNeg(ParseUnsigned(Tail(t))) ELSE ParseUnsigned(t)

\* pd.to_numeric(cell, errors='coerce'): a number stays, a text is parsed,
\* text that is no number becomes NaN
ToNumeric(x) == IF x.k = "str" THEN ParseNumber(x.s) ELSE x

----------------------------------------------------------------------------
(* Data frames: [cols: sequence of column names, rows: sequence of rows],   *)
(* a row being the sequence of its cells in column order                    *)

TimePeriodCol == <<"Time period">>
YearCol == <<"Year">>
ValueCol == <<"Value">>

HasCol(df, name) == \E c \in 1..Len(df.cols) : df.cols[c] = name
ColIdx(df, name) == CHOOSE c \in 1..Len(df.cols) : df.cols[c] = name

RECURSIVE MeltColumns(_, _, _)
MeltColumns(df, idIdx, c) ==
    IF c > Len(df.cols) THEN <<>>
    ELSE (IF c = idIdx THEN <<>>
          ELSE [r \in 1..Len(df.rows) |->
                   <<df.rows[r][idIdx], Str(df.cols[c]), df.rows[r][c]>>])
         \o MeltColumns(df, idIdx, c + 1)

\* df.melt(id_vars=['Time period'], var_name='Year', value_name='Value'):
\* one output row per (input row, non-id column), column by column
Melt(df) ==
    [cols |-> <<TimePeriodCol, YearCol, ValueCol>>,
     rows |-> MeltColumns(df, ColIdx(df, TimePeriodCol), 1)]

MinYear == 2010

\* prepare_oecd_data with the year filter written ~(Year < 2010) and dropna
\* on Value alone: rows whose Year is NaN survive
PrepareKeepsNaNYear(df) ==
    LET m == Melt(df)
        conv == [r \in 1..Len(m.rows) |->
                    <<m.rows[r][1], ToNumeric(m.rows[r][2]), ToNumeric(m.rows[r][3])>>]
        Kept(row) == ~FLt(row[2], Num(MinYear)) /\ ~IsNaN(row[3])
    IN  [cols |-> m.cols, rows |-> SelectSeq(conv, Kept)]

\* prepare_oecd_data without its dropna
PrepareNoDropna(df) ==
    LET m == Melt(df)
        conv == [r \in 1..Len(m.rows) |->
                    <<m.rows[r][1], ToNumeric(m.rows[r][2]), ToNumeric(m.rows[r][3])>>]
        Kept(row) == FGe(row[2], Num(MinYear))
    IN  [cols |-> m.cols, rows |-> SelectSeq(conv, Kept)]

\* prepare_oecd_data(df)
prepare_oecd_data(df) ==
    LET m == Melt(df)
        withYear == [r \in 1..Len(m.rows) |->
                        <<m.rows[r][1], ToNumeric(m.rows[r][2]), m.rows[r][3]>>]
        InRange(row) == FGe(row[2], Num(MinYear))
        filtered == SelectSeq(withYear, InRange)
        withValue == [r \in 1..Len(filtered) |->
                         <<filtered[r][1], filtered[r][2], ToNumeric(filtered[r][3])>>]
        Kept(row) == ~IsNaN(row[3]) /\ ~IsNaN(row[2])
    IN  [cols |-> m.cols, rows |-> SelectSeq(withValue, Kept)]

----------------------------------------------------------------------------
(* Selection, sorting and reduction *)

\* df.sort_values(col): rows in increasing order of the cell at position c
RECURSIVE InsertByCol(_, _, _)
InsertByCol(sorted, row, c) ==
    IF sorted = <<>> THEN <<row>>
    ELSE IF FLt(row[c], Head(sorted)[c]) THEN <<row>> \o sorted
    ELSE <<Head(sorted)>> \o InsertByCol(Tail(sorted), row, c)

RECURSIVE SortByCol(_, _)
SortByCol(rows, c) ==
    IF rows = <<>> THEN <<>>
    ELSE InsertByCol(SortByCol(SubSeq(rows, 1, Len(rows) - 1), c), rows[Len(rows)], c)

RECURSIVE SumSeq(_)
SumSeq(xs) == IF xs = <<>> THEN Num(0) ELSE FAdd(Head(xs), SumSeq(Tail(xs)))

NotNaN(x) == ~IsNaN(x)

\* Series.mean(): NaN cells are skipped; the mean of no cell is NaN
Mean(xs) ==
    LET present == SelectSeq(xs, NotNaN)
    IN  IF present = <<>> THEN NaN ELSE FDiv(SumSeq(present), Num(Len(present)))

\* the mean plotted as it is, missing or not
KeepNaN(m) == m

\* `m if not np.isnan(m) else 0`
ZeroIfNaN(m) == IF ~IsNaN(m) THEN m ELSE Num(0)

\* pct_change whose first row is 0 instead of missing
PctChangeZeroFirst(xs) ==
    [j \in 1..Len(xs) |->
        FMul(IF j = 1 THEN Num(0) ELSE FSub(FDiv(xs[j], xs[j - 1]), Num(1)), Num(100))]

\* pct_change that forgets the "- 1": the ratio to the prior row
PctChangeRatio(xs) ==
    [j \in 1..Len(xs) |->
        FMul(IF j = 1 THEN NaN ELSE FDiv(xs[j], xs[j - 1]), Num(100))]

\* Series.pct_change() * 100: data / data.shift(1) - 1, the first row has no
\* prior row
PctChange(xs) ==
    [j \in 1..Len(xs) |->
        FMul(IF j = 1 THEN NaN ELSE FSub(FDiv(xs[j], xs[j - 1]), Num(1)), Num(100))]

----------------------------------------------------------------------------
(* Long-format tables: rows <<entity, period, value>> *)

\* rows whose entity is one of `names` (df[df[col].isin([...])])
IsIn(rows, names) ==
    LET Hit(row) == \E j \in 1..Len(names) : row[1] = Str(<<names[j]>>)
    IN  SelectSeq(rows, Hit)

\* the year filter left out
FromAnyYear(rows) == rows

\* df[df[period] >= 2010]
FromMinYear(rows) ==
    LET Hit(row) == FGe(row[2], Num(MinYear))
    IN  SelectSeq(rows, Hit)

\* df[df[col] == entity]
OfEntity(rows, entity) ==
    LET Hit(row) == row[1] = Str(<<entity>>)
    IN  SelectSeq(rows, Hit)

\* alphabetical rank of the entity names of the model: groupby sorts its keys
AlphaRank(e) ==
    CASE e = Str(<<"CH">>) -> 1 [] e = Str(<<"DE">>) -> 2 [] e = Str(<<"FR">>) -> 3
      [] e = Str(<<"France">>) -> 4 [] e = Str(<<"Germany">>) -> 5
      [] e = Str(<<"IE">>) -> 6 [] e = Str(<<"Ireland">>) -> 7
      [] e = Str(<<"Switzerland">>) -> 8

KeyLe(a, b) ==
    \/ AlphaRank(a[1]) < AlphaRank(b[1])
    \/ AlphaRank(a[1]) = AlphaRank(b[1]) /\ ~FLt(b[2], a[2])

\* groupby(...).first() in place of mean(): the group's first value
RECURSIVE GroupRowsFirst(_, _)
GroupRowsFirst(rows, keys) ==
    IF keys = {} THEN <<>>
    ELSE LET key == CHOOSE a \in keys : \A b \in keys : KeyLe(a, b)
             InGroup(row) == <<row[1], row[2]>> = key
             grp == SelectSeq(rows, InGroup)
         IN  <<<<key[1], key[2], grp[1][3]>>>> \o GroupRowsFirst(rows, keys \ {key})

RECURSIVE GroupRows(_, _)
GroupRows(rows, keys) ==
    IF keys = {} THEN <<>>
    ELSE LET key == CHOOSE a \in keys : \A b \in keys : KeyLe(a, b)
             InGroup(row) == <<row[1], row[2]>> = key
             grp == SelectSeq(rows, InGroup)
         IN  <<<<key[1], key[2], Mean([j \in 1..Len(grp) |-> grp[j][3]])>>>>
             \o GroupRows(rows, keys \ {key})

\* the aggregation forgotten: the filtered rows as they are
GroupByNone(rows) == rows

\* df.groupby([entity, period])[value].mean().reset_index(): one row per
\* group, groups in sorted key order
GroupByMean(rows) ==
    GroupRows(rows, {<<rows[j][1], rows[j][2]>> : j \in 1..Len(rows)})

Col3(rows) == [j \in 1..Len(rows) |-> rows[j][3]]

\* the "before" mean with <= for <: the cutoff year counted as before
BeforeMeanInclusive(rows, xs, year) ==
    LET idx == {j \in 1..Len(rows) : ~FLt(Num(year), rows[j][2])}
        Pick(j) == j \in idx
        js == SelectSeq([j \in 1..Len(rows) |-> j], Pick)
    IN  Mean([m \in 1..Len(js) |-> xs[js[m]]])

\* country_data[country_data[period] < year][col].mean() and its >= twin, for
\* a frame whose rows are `rows` and whose column `col` holds `xs`
BeforeMean(rows, xs, year) ==
    LET idx == {j \in 1..Len(rows) : FLt(rows[j][2], Num(year))}
        Pick(j) == j \in idx
        js == SelectSeq([j \in 1..Len(rows) |-> j], Pick)
    IN  Mean([m \in 1..Len(js) |-> xs[js[m]]])

AfterMean(rows, xs, year) ==
    LET idx == {j \in 1..Len(rows) : FGe(rows[j][2], Num(year))}
        Pick(j) == j \in idx
        js == SelectSeq([j \in 1..Len(rows) |-> j], Pick)
    IN  Mean([m \in 1..Len(js) |-> xs[js[m]]])

----------------------------------------------------------------------------
(* Chart blocks *)

Countries == <<"Germany", "Ireland", "Switzerland">>
GeoCodes == <<"DE", "IE", "CH">>

\* country_codes / country_map
CountryOf(code) ==
    CASE code = "DE" -> "Germany" [] code = "IE" -> "Ireland" [] code = "CH" -> "Switzerland"

Col2(rows) == [j \in 1..Len(rows) |-> rows[j][2]]

\* graph 19, one country: select, sort by Year, fold, plot unless empty
IndexLine(df, country) ==
    LET country_data == SortByCol(OfEntity(df.rows, country), 2)
    IN  IF country_data # <<>>
        THEN <<[label |-> country,
                x |-> Col2(country_data),
                Value |-> Col3(country_data),
                y |-> CumulativeIndex(Col3(country_data))]>>
        ELSE <<>>

RECURSIVE IndexLines(_, _, _)
IndexLines(df, names, j) ==
    IF j > Len(names) THEN <<>>
    ELSE IndexLine(df, names[j]) \o IndexLines(df, names, j + 1)

\* graph 5, one country: select, sort by Year, plot unless empty
PlotLine(df, country) ==
    LET country_data == SortByCol(OfEntity(df.rows, country), 2)
    IN  IF country_data # <<>>
        THEN <<[label |-> country, x |-> Col2(country_data), y |-> Col3(country_data)]>>
        ELSE <<>>

RECURSIVE PlotLines(_, _, _)
PlotLines(df, names, j) ==
    IF j > Len(names) THEN <<>>
    ELSE PlotLine(df, names[j]) \o PlotLines(df, names, j + 1)

\* an exception in place of a value
Raised(e) == [k |-> "raise", n |-> 0, d |-> 1, s |-> <<e>>]
IsRaised(x) == x.k = "raise"

\* val[0] on an array: IndexError when the array is empty
Item0(val) == IF Len(val) = 0 THEN Raised("IndexError") ELSE val[1]

\* graph 20's years with the DMA one year late
reg_datesLate == <<2018, 2022, 2024, 2025>>

reg_dates == <<2018, 2022, 2023, 2025>>
reg_names == <<"GDPR (2018)", "DSA (2022)", "DMA (2023)", "AI Act (2025)">>
years_range(year) == <<year - 2, year - 1, year, year + 1, year + 2>>

\* graph 20 with the emptiness test dropped: val[0] whatever len(val)
YearValueNoGuard(country_data, y) ==
    LET AtYear(row) == row[2] = Num(y)
        val == Col3(SelectSeq(country_data, AtYear))
    IN  Item0(val)

\* graph 20, one country and year: `val[0] if len(val) > 0 else np.nan`
YearValue(country_data, y) ==
    LET AtYear(row) == row[2] = Num(y)
        val == Col3(SelectSeq(country_data, AtYear))
    IN  IF Len(val) > 0 THEN Item0(val) ELSE NaN

\* graph 20, one country: the five bars around a milestone year
YearBars(df, country, year) ==
    [label |-> country,
     values |-> [k \in 1..5 |-> YearValue(OfEntity(df.rows, country), years_range(year)[k])]]

\* graph 20, the figure of milestone idx
MilestoneFigure(df, idx) ==
    [name |-> reg_names[idx],
     years_range |-> years_range(reg_dates[idx]),
     bars |-> [c \in 1..Len(Countries) |-> YearBars(df, Countries[c], reg_dates[idx])]]

HasRaised(figure) ==
    \E c \in 1..Len(figure.bars) : \E k \in 1..5 : IsRaised(figure.bars[c].values[k])

cutoff_year == 2018
reg_years == <<2018, 2022, 2023>>

\* the same without the `len(country_data) > 1` guard
GrowthSplitAlways(clean, entity, label) ==
    LET country_data == SortByCol(OfEntity(clean, entity), 2)
        Growth_Rate == PctChange(Col3(country_data))
    IN  <<[label |-> label,
           rows |-> country_data,
           Growth_Rate |-> Growth_Rate,
           pre |-> ZeroIfNaN(BeforeMean(country_data, Growth_Rate, cutoff_year)),
           post |-> ZeroIfNaN(AfterMean(country_data, Growth_Rate, cutoff_year))]>>

\* graphs 24a and 24b, one entity: growth rates, then the two means
GrowthSplit(clean, entity, label) ==
    LET country_data == SortByCol(OfEntity(clean, entity), 2)
        Growth_Rate == PctChange(Col3(country_data))
    IN  IF Len(country_data) > 1
        THEN <<[label |-> label,
                rows |-> country_data,
                Growth_Rate |-> Growth_Rate,
                pre |-> ZeroIfNaN(BeforeMean(country_data, Growth_Rate, cutoff_year)),
                post |-> ZeroIfNaN(AfterMean(country_data, Growth_Rate, cutoff_year))]>>
        ELSE <<>>

\* graph 24c, one country: the two means of the Value column itself
ValueSplit(df, country) ==
    LET country_data == OfEntity(df.rows, country)
    IN  <<[label |-> country,
           rows |-> country_data,
           pre |-> ZeroIfNaN(BeforeMean(country_data, Col3(country_data), cutoff_year)),
           post |-> ZeroIfNaN(AfterMean(country_data, Col3(country_data), cutoff_year))]>>

\* graph 22, one country: before/after means of the growth rate for each
\* regulation year
RECURSIVE BeforeAfter(_, _, _)
BeforeAfter(country_data, Growth_Rate, j) ==
    IF j > Len(reg_years) THEN <<>>
    ELSE <<ZeroIfNaN(BeforeMean(country_data, Growth_Rate, reg_years[j])),
           ZeroIfNaN(AfterMean(country_data, Growth_Rate, reg_years[j]))>>
         \o BeforeAfter(country_data, Growth_Rate, j + 1)

TrafficBars(clean, code) ==
    LET country_data == SortByCol(OfEntity(clean, code), 2)
        Growth_Rate == PctChange(Col3(country_data))
    IN  IF Len(country_data) > 1
        THEN <<[label |-> CountryOf(code),
                rows |-> country_data,
                Growth_Rate |-> Growth_Rate,
                values |-> BeforeAfter(country_data, Growth_Rate, 1)]>>
        ELSE <<>>

\* filter, group and average a long table for the entities `names`
Clean(df, names) == GroupByMean(FromMinYear(IsIn(df.rows, names)))

\* graph 15, one country code: select, sort by TIME_PERIOD, plot unless empty
GeoLine(clean, code) ==
    LET country_data == SortByCol(OfEntity(clean, code), 2)
    IN  IF country_data # <<>>
        THEN <<[label |-> CountryOf(code), x |-> Col2(country_data), y |-> Col3(country_data)]>>
        ELSE <<>>

GeoLines(clean) == GeoLine(clean, "DE") \o GeoLine(clean, "IE") \o GeoLine(clean, "CH")

----------------------------------------------------------------------------
(* Input tables *)

\* year headers of a wide table: three years from 2010 on, one before, one
\* header that is no number, one that is a number but no whole year
HeaderTexts ==
    {<<"2", "0", "1", "7">>, <<"2", "0", "1", "8">>, <<"2", "0", "1", "9">>,
     <<"2", "0", "0", "9">>, <<"Unit">>, <<"2", "0", "1", "7", ".", "5">>}

\* cells of a wide table: two numbers, an empty cell, a text that is no number
WideCells ==
    {Str(<<"3", ".", "6">>), Str(<<"1", ".", "3">>), NaN, Str(<<"..">>)}

WideEntities == {"Germany", "France"}

\* read_csv keeps column names distinct
DistinctHeaders(h) == \A a, b \in 1..Len(h) : a # b => h[a] # h[b]

\* a wide table: the 'Time period' column, then the year columns h; no row,
\* or one row for entity e with cells c
WideTable(h, rows) == [cols |-> <<TimePeriodCol>> \o h, rows |-> rows]
WideRow(e, c) == <<Str(<<e>>)>> \o c

\* rows of a long table: the first plotted entity at every period and value
\* (one period before 2010, a zero value), the second at two periods with
\* one value, and one row of an entity no chart selects
LongPeriods == {2009, 2016, 2017, 2018}
SecondPeriods == {2017, 2018}
LongValues == {0, 5}

LongRows(entities) ==
    {<<Str(<<entities[1]>>), Num(t), Num(v)>> : t \in LongPeriods, v \in LongValues}
    \cup {<<Str(<<entities[2]>>), Num(t), Num(5)>> : t \in SecondPeriods}
    \cup {<<Str(<<entities[3]>>), Num(2017), Num(5)>>}

GeoCols == <<<<"geo">>, <<"TIME_PERIOD">>, <<"OBS_VALUE">>>>
UsageCols == <<<<"Country or Area">>, <<"Year">>, <<"Value">>>>

EmptyTable(cols) == [cols |-> cols, rows |-> <<>>]
EmptyWide == [cols |-> <<TimePeriodCol>>, rows |-> <<>>]

GeoEntities == <<"DE", "IE", "FR">>
UsageEntities == <<"Germany", "Ireland", "France">>

\* the dictionary load_data() returns
Tables(gerd, traffic, usage, cloud) ==
    [gerd |-> gerd, broadband_traffic |-> traffic, internet_usage |-> usage,
     individual_cloud |-> cloud]

\* a wide table of two rows and one year column; nothing in read_csv keeps
\* the two rows from naming the same entity
TwoRowTable(h, e1, c1, e2, c2) ==
    WideTable(<<h>>, <<WideRow(e1, <<c1>>), WideRow(e2, <<c2>>)>>)

\* the headers of the script's runs: whole years and a text (the header
\* "2017.5" is tried on prepare_oecd_data alone, in SpecReshape)
WholeHeaders == HeaderTexts \ {<<"2", "0", "1", "7", ".", "5">>}

\* what load_data() can return: every table is read from its own file; the
\* model lets one table at a time hold rows.  A wide table has at most
\* MaxCols year columns and one row, for Germany, or one year column and two
\* rows for any two entities; a long table has at most MaxRows rows.
Loaded ==
    \/ \E h \in HeaderTexts, e1 \in WideEntities, e2 \in WideEntities,
          c1 \in WideCells, c2 \in WideCells :
          data = Tables(TwoRowTable(h, e1, c1, e2, c2), EmptyTable(GeoCols),
                        EmptyTable(UsageCols), EmptyTable(GeoCols))
    \/ \E m \in 0..MaxCols : \E h \in [1..m -> WholeHeaders] :
          /\ DistinctHeaders(h)
          /\ \/ data = Tables(WideTable(h, <<>>), EmptyTable(GeoCols),
                              EmptyTable(UsageCols), EmptyTable(GeoCols))
             \/ \E c \in [1..m -> WideCells] :
                   data = Tables(WideTable(h, <<WideRow("Germany", c)>>), EmptyTable(GeoCols),
                                 EmptyTable(UsageCols), EmptyTable(GeoCols))
    \/ \E m \in 1..MaxRows : \E r \in [1..m -> LongRows(GeoEntities)] :
          data = Tables(EmptyWide, [cols |-> GeoCols, rows |-> r],
                        EmptyTable(UsageCols), EmptyTable(GeoCols))
    \/ \E m \in 1..MaxRows : \E r \in [1..m -> LongRows(UsageEntities)] :
          data = Tables(EmptyWide, EmptyTable(GeoCols),
                        [cols |-> UsageCols, rows |-> r], EmptyTable(GeoCols))
    \/ \E m \in 1..MaxRows : \E r \in [1..m -> LongRows(GeoEntities)] :
          data = Tables(EmptyWide, EmptyTable(GeoCols),
                        EmptyTable(UsageCols), [cols |-> GeoCols, rows |-> r])

----------------------------------------------------------------------------
(* The script *)

NoFrame == [cols |-> <<>>, rows |-> <<>>]
NoOut ==
    [g5 |-> <<>>, g15 |-> <<>>, g19 |-> <<>>, g20 |-> <<>>, g22 |-> <<>>,
     g24a |-> <<>>, g24b |-> <<>>, g24c |-> <<>>]
NoAgain == [status |-> "none", table |-> NoFrame]
NoFold == [Value |-> <<>>, Cumulative_Index |-> <<>>]
NoShuffled == [table |-> NoFrame, clean |-> NoFrame, lines |-> <<>>]
NoAxes == [ylim |-> Num(1), spans |-> <<>>, vlines |-> <<>>, texts |-> <<>>]

\* add_regulation_lines(ax, start_year=2010)
DefaultStartYear == 2010

\* no figure, no artifact, no exception, every input file in place
IdleLifecycle ==
    /\ blk = 0
    /\ figs = <<>>
    /\ opened = 0
    /\ written = <<>>
    /\ err = "none"
    /\ missing = {}
    /\ stdout = <<>>
    /\ order = <<>>

\* no outline read
NoOutlines ==
    [germany |-> <<>>, ireland |-> <<>>, switzerland |-> <<>>,
     germany_norm |-> <<>>, ireland_norm |-> <<>>, switzerland_norm |-> <<>>]

IdleAnnotation ==
    /\ ax = NoAxes
    /\ start_year = DefaultStartYear
    /\ gdfs = NoOutlines

\* one chart block from plt.subplots to plt.close, or a loop of such blocks:
\* each figure is opened, saved under its file name and closed
RenderAll(files) ==
    /\ opened' = opened + Len(files)
    /\ written' = written \o [k \in 1..Len(files) |-> [file |-> files[k], fig |-> opened + k]]
    /\ UNCHANGED <<blk, figs, err, missing, stdout, order>>

Render(file) == RenderAll(<<file>>)

\* data = load_data()
Init ==
    /\ pc = "g5"
    /\ Loaded
    /\ df_gerd = NoFrame
    /\ out = NoOut
    /\ again = NoAgain
    /\ cd = NoFold
    /\ i = 0
    /\ df_clean = NoFrame
    /\ shuffled = NoShuffled
    /\ IdleLifecycle
    /\ IdleAnnotation

\* 5. Total R&D Expenditure Growth Rates (GERD)
Graph5 ==
    /\ pc = "g5"
    /\ df_gerd' = prepare_oecd_data(data.gerd)
    /\ out' = [out EXCEPT !.g5 = PlotLines(df_gerd', Countries, 1)]
    /\ Render("graph_05_gerd_growth_rates.png")
    /\ pc' = "g19"
    /\ UNCHANGED <<data, again, cd, i, df_clean, shuffled, annotation>>

\* 19. R&D Investment Acceleration Index
Graph19 ==
    /\ pc = "g19"
    /\ df_gerd' = prepare_oecd_data(data.gerd)
    /\ out' = [out EXCEPT !.g19 = IndexLines(df_gerd', Countries, 1)]
    /\ Render("graph_19_rd_acceleration_index.png")
    /\ pc' = "g20"
    /\ UNCHANGED <<data, again, cd, i, df_clean, shuffled, annotation>>

\* graph 20's file name without the loop's letter and the milestone's name
Graph20FilesNoIndex ==
    <<"graph_20_yoy_growth.png", "graph_20_yoy_growth.png",
      "graph_20_yoy_growth.png", "graph_20_yoy_growth.png">>

Graph20Files ==
    <<"graph_20a_yoy_growth_gdpr.png", "graph_20b_yoy_growth_dsa.png",
      "graph_20c_yoy_growth_dma.png", "graph_20d_yoy_growth_ai.png">>

\* 20. YoY Growth Rate Comparison Around Regulatory Milestones: one figure
\* per milestone.  An exception ends the run inside the figure that raised
\* it, which stays open and unsaved.
Graph20 ==
    /\ pc = "g20"
    /\ df_gerd' = prepare_oecd_data(data.gerd)
    /\ LET figures == [idx \in 1..Len(reg_dates) |-> MilestoneFigure(df_gerd', idx)]
           bad == {idx \in 1..Len(reg_dates) : HasRaised(figures[idx])}
       IN  IF bad = {}
           THEN /\ out' = [out EXCEPT !.g20 = figures]
                /\ RenderAll(Graph20Files)
                /\ pc' = "g22"
           ELSE LET k == CHOOSE idx \in bad : \A b \in bad : idx <= b
                IN  /\ out' = [out EXCEPT !.g20 = SubSeq(figures, 1, k - 1)]
                    /\ opened' = opened + k
                    /\ written' = written \o [m \in 1..(k - 1) |->
                                      [file |-> Graph20Files[m], fig |-> opened + m]]
                    /\ figs' = Append(figs, opened + k)
                    /\ err' = "IndexError"
                    /\ pc' = "aborted"
                    /\ UNCHANGED <<blk, missing, stdout, order>>
    /\ UNCHANGED <<data, again, cd, i, df_clean, shuffled, annotation>>

\* 22. Broadband Traffic Growth Rate Before/After Each Regulation
Graph22 ==
    /\ pc = "g22"
    /\ df_clean' = [cols |-> GeoCols, rows |-> Clean(data.broadband_traffic, GeoCodes)]
    /\ LET clean == df_clean'.rows
       IN  out' = [out EXCEPT !.g22 = TrafficBars(clean, "DE") \o TrafficBars(clean, "IE")
                                          \o TrafficBars(clean, "CH")]
    /\ Render("graph_22_traffic_growth_before_after.png")
    /\ pc' = "g24a"
    /\ UNCHANGED <<data, df_gerd, again, cd, i, shuffled, annotation>>

\* Graph 24a: Internet Usage GROWTH RATES
Graph24a ==
    /\ pc = "g24a"
    /\ df_clean' = [cols |-> UsageCols, rows |-> Clean(data.internet_usage, Countries)]
    /\ LET clean == df_clean'.rows
       IN  out' = [out EXCEPT !.g24a = GrowthSplit(clean, "Germany", "Germany")
                                           \o GrowthSplit(clean, "Ireland", "Ireland")
                                           \o GrowthSplit(clean, "Switzerland", "Switzerland")]
    /\ Render("graph_24a_internet_usage_comparison.png")
    /\ pc' = "g24b"
    /\ UNCHANGED <<data, df_gerd, again, cd, i, shuffled, annotation>>

\* Graph 24b: Cloud Adoption GROWTH RATES
Graph24b ==
    /\ pc = "g24b"
    /\ df_clean' = [cols |-> GeoCols, rows |-> Clean(data.individual_cloud, GeoCodes)]
    /\ LET clean == df_clean'.rows
       IN  out' = [out EXCEPT !.g24b = GrowthSplit(clean, "DE", CountryOf("DE"))
                                           \o GrowthSplit(clean, "IE", CountryOf("IE"))
                                           \o GrowthSplit(clean, "CH", CountryOf("CH"))]
    /\ Render("graph_24b_cloud_adoption_comparison.png")
    /\ pc' = "g24c"
    /\ UNCHANGED <<data, df_gerd, again, cd, i, shuffled, annotation>>

\* Graph 24c: GERD comparison
Graph24c ==
    /\ pc = "g24c"
    /\ df_gerd' = prepare_oecd_data(data.gerd)
    /\ out' = [out EXCEPT !.g24c = ValueSplit(df_gerd', "Germany")
                                       \o ValueSplit(df_gerd', "Ireland")
                                       \o ValueSplit(df_gerd', "Switzerland")]
    /\ Render("graph_24c_gerd_comparison.png")
    /\ pc' = "done"
    /\ UNCHANGED <<data, again, cd, i, df_clean, shuffled, annotation>>

Next == Graph5 \/ Graph19 \/ Graph20 \/ Graph22 \/ Graph24a \/ Graph24b \/ Graph24c

Spec == Init /\ [][Next]_vars

----------------------------------------------------------------------------
(* The cumulative-index loop on its own, on any Value column *)

\* a growth cell: absent, or one of four rates
GrowthCells == {NaN, Num(10), Num(-10), Num(50), Num(0)}

InitFold ==
    /\ pc = "fold_init"
    /\ \E m \in 1..MaxLen : \E v \in [1..m -> GrowthCells] :
          cd = [Value |-> v, Cumulative_Index |-> <<>>]
    /\ i = 0
    /\ data = Tables(EmptyWide, EmptyTable(GeoCols), EmptyTable(UsageCols),
                     EmptyTable(GeoCols))
    /\ df_gerd = NoFrame
    /\ out = NoOut
    /\ again = NoAgain
    /\ df_clean = NoFrame
    /\ shuffled = NoShuffled
    /\ IdleLifecycle
    /\ IdleAnnotation

\* country_data['Cumulative_Index'] = 100.0
FoldStart ==
    /\ pc = "fold_init"
    /\ cd' = [cd EXCEPT !.Cumulative_Index = InitIndexColumn(cd.Value)]
    /\ i' = 1
    /\ pc' = IF 1 < Len(cd.Value) THEN "fold_loop" ELSE "fold_done"
    /\ UNCHANGED <<data, df_gerd, out, again, df_clean, shuffled, lifecycle, annotation>>

\* the body of `for i in range(1, len(country_data))`, once
FoldIter ==
    /\ pc = "fold_loop"
    /\ cd' = [cd EXCEPT !.Cumulative_Index = FoldStep(cd.Value, cd.Cumulative_Index, i + 1)]
    /\ i' = i + 1
    /\ pc' = IF i + 1 < Len(cd.Value) THEN "fold_loop" ELSE "fold_done"
    /\ UNCHANGED <<data, df_gerd, out, again, df_clean, shuffled, lifecycle, annotation>>

NextFold == FoldStart \/ FoldIter

SpecFold == InitFold /\ [][NextFold]_vars

----------------------------------------------------------------------------
(* Graph 15 on a long table, then on the same rows in another order *)

\* rows of the traffic table: Germany at three periods (one before 2010)
\* with two values, one observation without a value, one row each for
\* Ireland and for a country no chart selects
AggRows ==
    {<<Str(<<"DE">>), Num(t), Num(v)>> : t \in {2009, 2017, 2018}, v \in {1, 5}}
    \cup {<<Str(<<"DE">>), Num(2017), NaN>>,
          <<Str(<<"IE">>), Num(2017), Num(5)>>,
          <<Str(<<"FR">>), Num(2017), Num(5)>>}

Perms(n) == {f \in [1..n -> 1..n] : \A a, b \in 1..n : a # b => f[a] # f[b]}

InitAggregate ==
    /\ pc = "g15"
    /\ \E m \in 1..MaxRows : \E r \in [1..m -> AggRows] : \E f \in Perms(m) :
          /\ data = Tables(EmptyWide, [cols |-> GeoCols, rows |-> r],
                           EmptyTable(UsageCols), EmptyTable(GeoCols))
          /\ shuffled = [table |-> [cols |-> GeoCols, rows |-> [j \in 1..m |-> r[f[j]]]],
                         clean |-> NoFrame, lines |-> <<>>]
    /\ df_gerd = NoFrame
    /\ out = NoOut
    /\ again = NoAgain
    /\ cd = NoFold
    /\ i = 0
    /\ df_clean = NoFrame
    /\ IdleLifecycle
    /\ IdleAnnotation

\* 15. Broadband Traffic Volume Evolution
Graph15 ==
    /\ pc = "g15"
    /\ df_clean' = [cols |-> GeoCols, rows |-> Clean(data.broadband_traffic, GeoCodes)]
    /\ out' = [out EXCEPT !.g15 = GeoLines(df_clean'.rows)]
    /\ Render("graph_15_broadband_traffic_evolution.png")
    /\ pc' = "g15_shuffled"
    /\ UNCHANGED <<data, df_gerd, again, cd, i, shuffled, annotation>>

\* the same block run on the reordered table
Graph15Shuffled ==
    /\ pc = "g15_shuffled"
    /\ LET clean == Clean(shuffled.table, GeoCodes)
       IN  shuffled' = [shuffled EXCEPT !.clean = [cols |-> GeoCols, rows |-> clean],
                                        !.lines = GeoLines(clean)]
    /\ Render("graph_15_broadband_traffic_evolution.png")
    /\ pc' = "agg_done"
    /\ UNCHANGED <<data, df_gerd, out, again, cd, i, df_clean, annotation>>

NextAggregate == Graph15 \/ Graph15Shuffled

SpecAggregate == InitAggregate /\ [][NextAggregate]_vars

----------------------------------------------------------------------------
(* add_regulation_lines(ax, start_year) *)

datetime(y, m, d) == [year |-> y, month |-> m, day |-> d]

\* the dict REGULATIONS in insertion order, which is its iteration order
REGULATIONS ==
    <<[name |-> "GDPR", date |-> datetime(2018, 5, 25)],
      [name |-> "DSA", date |-> datetime(2022, 11, 16)],
      [name |-> "DMA", date |-> datetime(2023, 5, 2)],
      [name |-> "AI Act", date |-> datetime(2025, 2, 2)]>>

COVID_START == datetime(2020, 3, 11)
COVID_END == datetime(2023, 5, 1)

\* the fraction taken from the month itself: year + month / 12
XPosMonthOver12(date) == FAdd(Num(date.year), FDiv(Num(date.month), Num(12)))

\* the day of the month counted as well: year + (month - 1)/12 + (day - 1)/365
XPosWithDay(date) ==
    FAdd(FAdd(Num(date.year), FDiv(Num(date.month - 1), Num(12))),
         FDiv(Num(date.day - 1), Num(365)))

\* date.year + (date.month - 1) / 12
XPos(date) == FAdd(Num(date.year), FDiv(Num(date.month - 1), Num(12)))

\* the test with > in place of >=
FromStartYearStrict(date, sy) == date.year > sy

\* if date.year >= start_year
FromStartYear(date, sy) == date.year >= sy

\* start years tried: from the year before the default to MaxStartYear
MaxStartYear == 2026
StartYears == (DefaultStartYear - 1)..MaxStartYear

\* upper y limits the axes can have when the function is called
YLims == {Num(1), Num(100), Fin(-1, 2)}

InitTimeline ==
    /\ pc = "axvspan"
    /\ \E sy \in StartYears : start_year = sy
    /\ \E top \in YLims : ax = [NoAxes EXCEPT !.ylim = top]
    /\ gdfs = NoOutlines
    /\ i = 0
    /\ data = Tables(EmptyWide, EmptyTable(GeoCols), EmptyTable(UsageCols), EmptyTable(GeoCols))
    /\ df_gerd = NoFrame
    /\ out = NoOut
    /\ again = NoAgain
    /\ cd = NoFold
    /\ df_clean = NoFrame
    /\ shuffled = NoShuffled
    /\ IdleLifecycle

\* ax.axvspan(covid_start_x, covid_end_x, ...), then the loop starts
ShadeCovid ==
    /\ pc = "axvspan"
    /\ ax' = [ax EXCEPT !.spans = Append(@, <<XPos(COVID_START), XPos(COVID_END)>>)]
    /\ i' = 1
    /\ pc' = "for"
    /\ UNCHANGED <<data, df_gerd, out, again, cd, df_clean, shuffled, lifecycle, start_year,
                   gdfs>>

\* one iteration of `for name, date in REGULATIONS.items()`
RegulationLine ==
    /\ pc = "for"
    /\ i <= Len(REGULATIONS)
    /\ LET name == REGULATIONS[i].name
           date == REGULATIONS[i].date
           x_pos == XPos(date)
           y_pos == FMul(ax.ylim, Fin(95, 100))
       IN  IF FromStartYear(date, start_year)
           THEN ax' = [ax EXCEPT !.vlines = Append(@, [x |-> x_pos]),
                                 !.texts = Append(@, [x |-> FAdd(x_pos, Fin(1, 10)),
                                                      y |-> y_pos, s |-> name])]
           ELSE ax' = ax
    /\ i' = i + 1
    /\ pc' = IF i = Len(REGULATIONS) THEN "returned" ELSE "for"
    /\ UNCHANGED <<data, df_gerd, out, again, cd, df_clean, shuffled, lifecycle, start_year,
                   gdfs>>

NextTimeline == ShadeCovid \/ RegulationLine

SpecTimeline == InitTimeline /\ [][NextTimeline]_vars

----------------------------------------------------------------------------
(* The whole run: input files, figures and artifacts *)

\* load_data(): the keys of the dictionary and their files, in reading order
CsvFiles ==
    <<[key |-> "broadband_prices", file |-> "data/broadband prices.csv"],
      [key |-> "individual_cloud", file |-> "data/Individual Cloud Service Use.csv"],
      [key |-> "gerd", file |-> "data/GERD OECD.csv"],
      [key |-> "broadband_traffic", file |-> "data/broadband traffic.csv"],
      [key |-> "cloud_services", file |-> "data/Cloud Computing Services.csv"],
      [key |-> "bred", file |-> "data/BRED OECD.csv"],
      [key |-> "internet_usage", file |-> "data/Internet Usage _ UN DATA.csv"],
      [key |-> "goverd", file |-> "data/GOVERD OECD.csv"],
      [key |-> "broadband_speed", file |-> "data/broadband speed.csv"],
      [key |-> "berid", file |-> "data/BERID OECD.csv"],
      [key |-> "hred", file |-> "data/HRED OECD.csv"],
      [key |-> "vpn_searches", file |-> "data/multiTimeline.csv"]>>

\* create_choropleth_comparison reads the three outlines on every call
GeoFiles ==
    <<"geojson/germany.geojson", "geojson/ireland.geojson", "geojson/switzerland.geojson">>

InputFiles ==
    {CsvFiles[k].file : k \in 1..Len(CsvFiles)} \cup {GeoFiles[k] : k \in 1..Len(GeoFiles)}

Charts(files) == [k \in 1..Len(files) |-> [kind |-> "chart", file |-> files[k], arg |-> ""]]

\* the figures of the script in program order; kind tells how the figure's
\* block treats it: "chart" opens, draws, saves and closes; "g16" is one
\* iteration of graph 16's loop for country code arg; "choropleth" is a call
\* of create_choropleth_comparison; "g42" is the VPN chart
Script ==
    Charts(<<"graph_01_broadband_pricing_timeline.png",
             "graph_02_internet_usage_trajectory.png",
             "graph_03_broadband_speed_evolution.png",
             "graph_04_individual_cloud_adoption.png",
             "graph_05_gerd_growth_rates.png",
             "graph_06_bred_trends.png",
             "graph_07_goverd_response.png",
             "graph_08_hred_acceleration.png",
             "graph_09_comparative_rd_germany.png",
             "graph_10_comparative_rd_ireland.png",
             "graph_11_comparative_rd_switzerland.png",
             "graph_12_enterprise_cloud_germany.png",
             "graph_13_enterprise_cloud_ireland.png",
             "graph_14_enterprise_cloud_switzerland.png",
             "graph_15_broadband_traffic_evolution.png">>)
    \o <<[kind |-> "g16", file |-> "graph_16a_broadband_prices_germany.png", arg |-> "DE"],
         [kind |-> "g16", file |-> "graph_16b_broadband_prices_ireland.png", arg |-> "IE"]>>
    \o Charts(<<"graph_17_three_country_internet_usage.png",
                "graph_18_three_country_cloud_adoption.png",
                "graph_19_rd_acceleration_index.png",
                "graph_19a_bred_acceleration_index.png",
                "graph_19b_goverd_acceleration_index.png",
                "graph_19c_hred_acceleration_index.png">>)
    \o Charts(Graph20Files)
    \o Charts(<<"graph_21_digital_maturity_index.png",
                "graph_22_traffic_growth_before_after.png",
                "graph_23_cumulative_investment_index.png",
                "graph_24a_internet_usage_comparison.png",
                "graph_24b_cloud_adoption_comparison.png",
                "graph_24c_gerd_comparison.png",
                "graph_25_enterprise_cloud_vs_regulations.png">>)
    \o <<[kind |-> "choropleth", file |-> "graph_26_choropleth_internet_growth.png", arg |-> ""],
         [kind |-> "choropleth", file |-> "graph_27_choropleth_cloud_adoption_growth.png", arg |-> ""],
         [kind |-> "choropleth", file |-> "graph_28_choropleth_gerd_growth.png", arg |-> ""]>>
    \o Charts(<<"graph_29_regulation_impact_survey.png",
                "graph_30_digital_rights_survey.png",
                "graph_31_dma_dsa_cost_increases.png",
                "graph_32_company_actions_cost_response.png",
                "graph_33_tech_cost_vs_challenges.png",
                "graph_34_cost_savings_by_firm_size.png",
                "graph_35_technology_use_european_firms.png",
                "graph_36_priority_digital_services.png",
                "graph_37_us_digital_services_by_firm_size.png",
                "graph_38_benefits_by_firm_age.png",
                "graph_39_eu_regulations_cost_by_sector.png",
                "graph_40_notifications_24h_trend.png",
                "graph_41_social_media_compliance_monitoring.png">>)
    \o <<[kind |-> "g42", file |-> "graph_42_vpn_searches_texas.png", arg |-> ""]>>

\* broadband prices: rows <<geo, TIME_PERIOD, offer, OBS_VALUE>>
PriceCols == <<<<"geo">>, <<"TIME_PERIOD">>, <<"offer">>, <<"OBS_VALUE">>>>

PriceOffer == "FI_MBPS100-200"

PriceRows ==
    {<<Str(<<"DE">>), Num(2017), Str(<<PriceOffer>>), Num(1)>>,
     <<Str(<<"DE">>), Num(2009), Str(<<PriceOffer>>), Num(1)>>,
     <<Str(<<"DE">>), Num(2017), Str(<<"FI_MBPS30-100">>), Num(1)>>,
     <<Str(<<"IE">>), Num(2017), Str(<<PriceOffer>>), Num(5)>>,
     <<Str(<<"FR">>), Num(2017), Str(<<PriceOffer>>), Num(1)>>}

\* graphs 1 and 16: the two countries, from 2010, one offer, mean per
\* (geo, TIME_PERIOD)
PricesClean(df) ==
    LET OfOffer(row) == row[3] = Str(<<PriceOffer>>)
        kept == SelectSeq(FromMinYear(IsIn(df.rows, <<"DE", "IE">>)), OfOffer)
    \* the selected columns are one frame, grouped once
    IN  CHOOSE g \in {GroupByMean(r) : r \in {[j \in 1..Len(kept) |->
                                                  <<kept[j][1], kept[j][2], kept[j][4]>>]}} : TRUE

\* multiTimeline.csv: rows <<Week, VPN Searches>>
VpnCols == <<<<"Week">>, <<"VPN Searches">>>>

WeekTexts ==
    {<<"2", "0", "2", "3", "-", "0", "8", "-", "2", "7">>,
     <<"2", "0", "2", "3", "-", "0", "9", "-", "0", "3">>,
     <<"n", "/", "a">>}

VpnRows == {<<Str(w), Num(50)>> : w \in WeekTexts}

Timestamp(y, m, d) == [k |-> "datetime", n |-> 0, d |-> 1, s |-> <<y, m, d>>]

IsIsoDate(t) ==
    /\ Len(t) = 10
    /\ t[5] = "-"
    /\ t[8] = "-"
    /\ \A j \in {1, 2, 3, 4, 6, 7, 9, 10} : t[j] \in Digits
    /\ DigitsVal(SubSeq(t, 6, 7)) \in 1..12
    /\ DigitsVal(SubSeq(t, 9, 10)) \in 1..31

\* pd.to_datetime on one cell: a date text becomes a timestamp, a missing
\* cell stays missing (NaT), any other text raises
ToDatetime(x) ==
    IF x.k = "str"
    THEN IF IsIsoDate(x.s)
         THEN Timestamp(DigitsVal(SubSeq(x.s, 1, 4)), DigitsVal(SubSeq(x.s, 6, 7)),
                        DigitsVal(SubSeq(x.s, 9, 10)))
         ELSE Raised("ValueError")
    ELSE x

\* rows of a table of the run: up to MaxRunRows
MaxRunRows == 2

TablesOf(cols, rowset) ==
    {[cols |-> cols, rows |-> r] : r \in UNION {[1..m -> rowset] : m \in 0..MaxRunRows}}

\* both countries priced; one week
PricesBoth ==
    [cols |-> PriceCols,
     rows |-> <<<<Str(<<"DE">>), Num(2017), Str(<<PriceOffer>>), Num(1)>>,
                <<Str(<<"IE">>), Num(2017), Str(<<PriceOffer>>), Num(5)>>>>]

VpnOneWeek ==
    [cols |-> VpnCols,
     rows |-> <<<<Str(<<"2", "0", "2", "3", "-", "0", "9", "-", "0", "3">>), Num(50)>>>>]

\* the dictionary load_data returns: the prices and the VPN table with their
\* rows; the figures of the other tables are saved and closed whatever the
\* tables hold, so their rows are left out
RunTables(prices, vpn) ==
    [key \in {CsvFiles[k].key : k \in 1..Len(CsvFiles)} |->
        CASE key = "broadband_prices" -> prices
          [] key = "vpn_searches" -> vpn
          [] OTHER -> NoFrame]

LoadedRun ==
    {RunTables(p, VpnOneWeek) : p \in TablesOf(PriceCols, PriceRows)}
    \cup {RunTables(PricesBoth, v) : v \in TablesOf(VpnCols, VpnRows)}

\* the figures' blocks as the script has them
ProgramOrder == [k \in 1..Len(Script) |-> k]

\* the interpreter starts: nothing loaded, and at most one of the input
\* files is not there
InitRun ==
    /\ pc = "load"
    /\ missing \in {{}} \cup {{f} : f \in InputFiles}
    /\ data = <<>>
    /\ blk = 0
    /\ figs = <<>>
    /\ opened = 0
    /\ written = <<>>
    /\ err = "none"
    /\ stdout = <<>>
    /\ order = ProgramOrder
    /\ df_gerd = NoFrame
    /\ out = NoOut
    /\ again = NoAgain
    /\ cd = NoFold
    /\ i = 0
    /\ df_clean = NoFrame
    /\ shuffled = NoShuffled
    /\ IdleAnnotation

\* position after the b-th executed block
AfterBlock(b) ==
    IF b = Len(Script) THEN "print"
    ELSE IF Script[order[b + 1]].kind = "choropleth" THEN "geo" ELSE "open"

NextBlock ==
    /\ blk' = IF blk = Len(Script) THEN blk ELSE blk + 1
    /\ pc' = AfterBlock(blk)

\* data = load_data(): the files are read in order, the first missing one
\* raises and the run ends before `data` is bound
LoadData ==
    /\ pc = "load"
    /\ IF \E k \in 1..Len(CsvFiles) : CsvFiles[k].file \in missing
       THEN /\ err' = "FileNotFoundError"
            /\ pc' = "aborted"
            /\ UNCHANGED <<data, blk>>
       ELSE /\ data' \in LoadedRun
            /\ blk' = 1
            /\ pc' = AfterBlock(0)
            /\ err' = err
    /\ UNCHANGED <<df_gerd, out, again, cd, i, df_clean, shuffled, figs, opened,
                   written, missing, stdout, annotation, order>>

\* gpd.read_file(...) three times at the head of create_choropleth_comparison
ReadGeometry ==
    /\ pc = "geo"
    /\ IF \E k \in 1..Len(GeoFiles) : GeoFiles[k] \in missing
       THEN err' = "DataSourceError" /\ pc' = "aborted"
       ELSE err' = err /\ pc' = "open"
    /\ UNCHANGED <<data, df_gerd, out, again, cd, i, df_clean, shuffled, blk, figs,
                   opened, written, missing, stdout, annotation, order>>

\* fig, ax = plt.subplots(...): a new figure, which becomes the current one
OpenFigure ==
    /\ pc = "open"
    /\ opened' = opened + 1
    /\ figs' = Append(figs, opened + 1)
    /\ pc' = "plot"
    /\ UNCHANGED <<data, df_gerd, out, again, cd, i, df_clean, shuffled, blk,
                   written, err, missing, stdout, annotation, order>>

\* the body of a block whose savefig and close are not under a condition
PlotChart ==
    /\ pc = "plot"
    /\ Script[order[blk]].kind \in {"chart", "choropleth"}
    /\ pc' = "save"
    /\ UNCHANGED <<data, df_gerd, out, again, cd, i, df_clean, shuffled, blk, figs,
                   opened, written, err, missing, stdout, annotation, order>>

\* graph 16, one country: everything after plt.subplots, savefig and close
\* included, is under `if not country_data.empty`
PlotGraph16 ==
    /\ pc = "plot"
    /\ Script[order[blk]].kind = "g16"
    \* df_prices_clean, the country's rows and their sorted copy are each
    \* computed once and held in a name (lines 475-483)
    /\ \E country_data \in {SortByCol(series, 2) :
                                series \in {OfEntity(clean, Script[order[blk]].arg) :
                                               clean \in {PricesClean(data.broadband_prices)}}} :
           /\ pc' = IF country_data # <<>> THEN "save" ELSE AfterBlock(blk)
           /\ blk' = IF country_data # <<>> \/ blk = Len(Script) THEN blk ELSE blk + 1
    /\ UNCHANGED <<data, df_gerd, out, again, cd, i, df_clean, shuffled, figs,
                   opened, written, err, missing, stdout, annotation, order>>

\* graph 42: df_vpn is the loaded table itself, and the converted Week
\* column is assigned into it
PlotGraph42 ==
    /\ pc = "plot"
    /\ Script[order[blk]].kind = "g42"
    /\ LET df_vpn == data.vpn_searches
           Week == [j \in 1..Len(df_vpn.rows) |-> ToDatetime(df_vpn.rows[j][1])]
       IN  IF \E j \in 1..Len(Week) : IsRaised(Week[j])
           THEN /\ err' = "ValueError"
                /\ pc' = "aborted"
                /\ data' = data
           ELSE /\ data' = [data EXCEPT !.vpn_searches.rows =
                               [j \in 1..Len(df_vpn.rows) |-> <<Week[j], df_vpn.rows[j][2]>>]]
                /\ pc' = "save"
                /\ err' = err
    /\ UNCHANGED <<df_gerd, out, again, cd, i, df_clean, shuffled, blk, figs,
                   opened, written, missing, stdout, annotation, order>>

\* plt.savefig(file): the current figure is written
SaveFigure ==
    /\ pc = "save"
    /\ written' = Append(written, [file |-> Script[order[blk]].file, fig |-> figs[Len(figs)]])
    /\ pc' = "close"
    /\ UNCHANGED <<data, df_gerd, out, again, cd, i, df_clean, shuffled, blk, figs,
                   opened, err, missing, stdout, annotation, order>>

\* plt.close(): the current figure is closed
CloseFigure ==
    /\ pc = "close"
    /\ figs' = SubSeq(figs, 1, Len(figs) - 1)
    /\ NextBlock
    /\ UNCHANGED <<data, df_gerd, out, again, cd, i, df_clean, shuffled,
                   opened, written, err, missing, stdout, annotation, order>>

\* the script held up before its last statement (a blocking plt.show())
CompleteNever ==
    /\ pc = "print"
    /\ FALSE
    /\ UNCHANGED vars

\* the message printed by a run that was aborted as well
CompleteOrAborted ==
    /\ pc \in {"print", "aborted"}
    /\ stdout = <<>>
    /\ stdout' = Append(stdout, "All graphs completed successfully!")
    /\ pc' = "done"
    /\ UNCHANGED <<data, df_gerd, out, again, cd, i, df_clean, shuffled, blk, figs,
                   opened, written, err, missing, annotation, order>>

\* print("All graphs completed successfully!")
Complete ==
    /\ pc = "print"
    /\ stdout' = Append(stdout, "All graphs completed successfully!")
    /\ pc' = "done"
    /\ UNCHANGED <<data, df_gerd, out, again, cd, i, df_clean, shuffled, blk, figs,
                   opened, written, err, missing, annotation, order>>

NextRun ==
    \/ LoadData
    \/ ReadGeometry
    \/ OpenFigure
    \/ PlotChart
    \/ PlotGraph16
    \/ PlotGraph42
    \/ SaveFigure
    \/ CloseFigure
    \/ Complete

SpecRun == InitRun /\ [][NextRun]_vars

\* the interpreter executes the next statement as long as there is one
SpecRunFair == SpecRun /\ WF_vars(NextRun)

\* The same blocks executed in another order: the program's, its reverse,
\* and the program's with one block moved to the front (graph 42, the last,
\* or graph 29, the first after the maps).  Every CSV file is there.
Reversed == [k \in 1..Len(Script) |-> Len(Script) + 1 - k]

ToFront(b) ==
    [k \in 1..Len(Script) |-> IF k = 1 THEN b ELSE IF k <= b THEN k - 1 ELSE k]

BlockOf(file) == CHOOSE k \in 1..Len(Script) : Script[k].file = file

Orders ==
    {ProgramOrder, Reversed,
     ToFront(BlockOf("graph_42_vpn_searches_texas.png")),
     ToFront(BlockOf("graph_29_regulation_impact_survey.png"))}

InitOrder ==
    /\ pc = "load"
    /\ missing \in {{}} \cup {{GeoFiles[k]} : k \in 1..Len(GeoFiles)}
    /\ order \in Orders
    /\ data = <<>>
    /\ blk = 0
    /\ figs = <<>>
    /\ opened = 0
    /\ written = <<>>
    /\ err = "none"
    /\ stdout = <<>>
    /\ df_gerd = NoFrame
    /\ out = NoOut
    /\ again = NoAgain
    /\ cd = NoFold
    /\ i = 0
    /\ df_clean = NoFrame
    /\ shuffled = NoShuffled
    /\ IdleAnnotation

SpecOrder == InitOrder /\ [][NextRun]_vars

----------------------------------------------------------------------------
(* prepare_oecd_data applied to a wide table, then to its own output *)

InitReshape ==
    /\ pc = "prep"
    /\ \/ \E m \in 0..MaxCols : \E h \in [1..m -> HeaderTexts] :
             /\ DistinctHeaders(h)
             /\ \/ data = Tables(WideTable(h, <<>>), EmptyTable(GeoCols),
                                 EmptyTable(UsageCols), EmptyTable(GeoCols))
                \/ \E e \in WideEntities, c \in [1..m -> WideCells] :
                      data = Tables(WideTable(h, <<WideRow(e, c)>>), EmptyTable(GeoCols),
                                    EmptyTable(UsageCols), EmptyTable(GeoCols))
       \/ \E h \in HeaderTexts, e1 \in WideEntities, e2 \in WideEntities,
             c1 \in WideCells, c2 \in WideCells :
             data = Tables(TwoRowTable(h, e1, c1, e2, c2), EmptyTable(GeoCols),
                           EmptyTable(UsageCols), EmptyTable(GeoCols))
    /\ df_gerd = NoFrame
    /\ out = NoOut
    /\ again = NoAgain
    /\ cd = NoFold
    /\ i = 0
    /\ df_clean = NoFrame
    /\ shuffled = NoShuffled
    /\ IdleLifecycle
    /\ IdleAnnotation

Prepare ==
    /\ pc = "prep"
    /\ df_gerd' = prepare_oecd_data(data.gerd)
    /\ pc' = "prep_again"
    /\ UNCHANGED <<data, out, again, cd, i, df_clean, shuffled, lifecycle, annotation>>

\* prepare_oecd_data(df_gerd).  melt is asked for value_name='Value' on a
\* frame that has a 'Value' column: pandas from 2.0 on raises ValueError,
\* earlier releases warn and go on.
PrepareAgain ==
    /\ pc = "prep_again"
    /\ \/ /\ HasCol(df_gerd, ValueCol)
          /\ again' = [status |-> "ValueError", table |-> NoFrame]
       \/ again' = [status |-> "ok", table |-> prepare_oecd_data(df_gerd)]
    /\ pc' = "prep_done"
    /\ UNCHANGED <<data, df_gerd, out, cd, i, df_clean, shuffled, lifecycle, annotation>>

NextReshape == Prepare \/ PrepareAgain

SpecReshape == InitReshape /\ [][NextReshape]_vars

----------------------------------------------------------------------------
(* Claims about the cumulative-index loop, under SpecFold *)

\* positions of the Value column the loop has gone through (1-based)
Folded == IF pc = "fold_init" THEN {} ELSE 2..i

C2_PresentGrowthChains ==
    /\ pc # "fold_init" => cd.Cumulative_Index[1] = Num(100)
    /\ \A j \in Folded :
          ~IsNaN(cd.Value[j]) =>
              LET cur == cd.Cumulative_Index[j]
                  prev == cd.Cumulative_Index[j - 1]
                  g == cd.Value[j]
              IN  cur = FDiv(FMul(prev, Fin(100 * g.d + g.n, g.d)), Num(100))
    /\ (pc = "fold_done" /\ Len(cd.Value) = 3
            /\ cd.Value[2] = Num(10) /\ cd.Value[3] = Num(-10))
          => cd.Cumulative_Index = <<Num(100), Num(110), Num(99)>>

C2_Witness ==
    /\ pc = "fold_done"
    /\ cd.Value = <<Num(50), Num(10), Num(-10)>>
    /\ cd.Cumulative_Index = <<Num(100), Num(110), Num(99)>>

\* C9: when the growth value of every period after the first is missing,
\* the index is 100 at every period.
C9_AllMissingStaysAtBase ==
    (pc = "fold_done" /\ \A j \in 2..Len(cd.Value) : IsNaN(cd.Value[j]))
        => \A j \in 1..Len(cd.Value) : cd.Cumulative_Index[j] = Num(100)

C9_Witness ==
    /\ pc = "fold_done"
    /\ cd.Value = <<Num(10), NaN, NaN>>
    /\ cd.Cumulative_Index = <<Num(100), Num(100), Num(100)>>

----------------------------------------------------------------------------
(* Claims about the reshaping and the chart blocks *)

T2017 == <<"2", "0", "1", "7">>
T2018 == <<"2", "0", "1", "8">>
T2019 == <<"2", "0", "1", "9">>
Germany == Str(<<"Germany">>)

\* the wide table of the end-to-end scenario: one row, Germany, with 3.6
\* under 2017, 1.3 under 2018 and an empty cell under 2019 (columns in any
\* order)
IsScenario(df) ==
    /\ Len(df.cols) = 4
    /\ Len(df.rows) = 1
    /\ df.rows[1][1] = Germany
    /\ \A c \in 2..4 :
          \/ df.cols[c] = T2017 /\ df.rows[1][c] = Str(<<"3", ".", "6">>)
          \/ df.cols[c] = T2018 /\ df.rows[1][c] = Str(<<"1", ".", "3">>)
          \/ df.cols[c] = T2019 /\ df.rows[1][c] = NaN

ScenarioLong ==
    /\ Len(df_gerd.rows) = 2
    /\ {df_gerd.rows[r] : r \in 1..2}
          = {<<Germany, Num(2017), Fin(36, 10)>>, <<Germany, Num(2018), Fin(13, 10)>>}
    /\ Len(out.g19) = 1
    /\ out.g19[1].label = "Germany"
    /\ out.g19[1].x = <<Num(2017), Num(2018)>>
    /\ out.g19[1].Value = <<Fin(36, 10), Fin(13, 10)>>

\* C3 (as stated): the scenario yields the long series [(2017, 3.6),
\* (2018, 1.3)] and the cumulative index [100.0 at 2017, 36.11 at 2018],
\* i.e. the index chained from the growth rate (1.3 - 3.6)/3.6 * 100.
C3_ScenarioIndexFromPctChange ==
    (pc \notin {"g5", "g19"} /\ IsScenario(data.gerd)) =>
        /\ ScenarioLong
        /\ Len(out.g19[1].y) = 2
        /\ out.g19[1].y[1] = Num(100)
        /\ FGe(out.g19[1].y[2], Fin(3611, 100))
        /\ FLt(out.g19[1].y[2], Fin(3612, 100))

\* C3 (amended): the scenario yields the long series [(2017, 3.6),
\* (2018, 1.3)], 2019 dropped; graph 19 takes the values themselves as
\* growth rates, so the cumulative index is [100.0 at 2017, 101.3 at 2018].
C3_ScenarioIndexFromValues ==
    (pc \notin {"g5", "g19"} /\ IsScenario(data.gerd)) =>
        /\ ScenarioLong
        /\ out.g19[1].y = <<Num(100), Fin(1013, 10)>>

C3_Witness ==
    /\ pc = "g20"
    /\ data.gerd.cols = <<TimePeriodCol, T2017, T2018, T2019>>
    /\ IsScenario(data.gerd)
    /\ out.g19[1].y = <<Num(100), Fin(1013, 10)>>

----------------------------------------------------------------------------
(* Pre/post split *)

\* the entries of the growth-rate charts as frames (rows, Growth_Rate)
GrowthFrames ==
    [k \in 1..Len(out.g22) |->
        [rows |-> out.g22[k].rows, Growth_Rate |-> out.g22[k].Growth_Rate]]
    \o [k \in 1..Len(out.g24a) |->
        [rows |-> out.g24a[k].rows, Growth_Rate |-> out.g24a[k].Growth_Rate]]
    \o [k \in 1..Len(out.g24b) |->
        [rows |-> out.g24b[k].rows, Growth_Rate |-> out.g24b[k].Growth_Rate]]

\* row positions whose period is before C (pre = TRUE) or from C on (FALSE)
Side(rows, C, pre) ==
    {j \in 1..Len(rows) : (rows[j][2].n < C * rows[j][2].d) = pre}

RECURSIVE SumOver(_, _)
SumOver(xs, S) ==
    IF S = {} THEN Num(0)
    ELSE LET j == CHOOSE m \in S : TRUE IN FAdd(xs[j], SumOver(xs, S \ {j}))

\* the reported value of one partition: the arithmetic mean of its
\* non-missing values when these are finite numbers, 0 when it has none, and
\* in no case the missing marker
PartitionOK(rows, xs, C, pre, reported) ==
    LET present == {j \in Side(rows, C, pre) : ~IsNaN(xs[j])}
    IN  /\ ~IsNaN(reported)
        /\ present = {} => reported = Num(0)
        /\ (present # {} /\ \A j \in present : IsFin(xs[j]))
              => reported = FDiv(SumOver(xs, present), Num(Cardinality(present)))

SplitOK(rows, xs, C, pre, post) ==
    /\ Side(rows, C, TRUE) \cup Side(rows, C, FALSE) = 1..Len(rows)
    /\ Side(rows, C, TRUE) \cap Side(rows, C, FALSE) = {}
    /\ \A j \in 1..Len(rows) : rows[j][2] = Num(C) => j \in Side(rows, C, FALSE)
    /\ PartitionOK(rows, xs, C, TRUE, pre)
    /\ PartitionOK(rows, xs, C, FALSE, post)

\* C4: every period lies in exactly one of {p < C} and {p >= C}, the cutoff
\* year itself in the second; each partition is reduced to the arithmetic
\* mean of its non-missing values, and a partition with no non-missing value
\* is reported as 0, never as the missing marker.
C4_PrePostSplit ==
    /\ \A k \in 1..Len(out.g24a) :
          SplitOK(out.g24a[k].rows, out.g24a[k].Growth_Rate, 2018,
                  out.g24a[k].pre, out.g24a[k].post)
    /\ \A k \in 1..Len(out.g24b) :
          SplitOK(out.g24b[k].rows, out.g24b[k].Growth_Rate, 2018,
                  out.g24b[k].pre, out.g24b[k].post)
    /\ \A k \in 1..Len(out.g24c) :
          SplitOK(out.g24c[k].rows, Col3(out.g24c[k].rows), 2018,
                  out.g24c[k].pre, out.g24c[k].post)
    /\ \A k \in 1..Len(out.g22) : \A y \in 1..3 :
          SplitOK(out.g22[k].rows, out.g22[k].Growth_Rate, reg_years[y],
                  out.g22[k].values[2 * y - 1], out.g22[k].values[2 * y])

\* Germany with 1.3 at 2017 and 3.6, 1.3 at 2018, 2019: pre-mean 1.3,
\* post-mean 2.45; Ireland has no row and reports 0 and 0
C4_Witness ==
    /\ pc = "done"
    /\ Len(out.g24c[1].rows) = 3
    /\ out.g24c[1].pre = Fin(13, 10)
    /\ out.g24c[1].post = Fin(245, 100)
    /\ out.g24c[2].rows = <<>>
    /\ out.g24c[2].pre = Num(0)
    /\ out.g24c[2].post = Num(0)

\* the periods from 2010 on that a long table holds for an entity
PeriodsOf(df, entity) ==
    {df.rows[j][2] : j \in {m \in 1..Len(df.rows) :
                              /\ df.rows[m][1] = Str(<<entity>>)
                              /\ df.rows[m][2].n >= 2010 * df.rows[m][2].d}}

Labels(entries) == [k \in 1..Len(entries) |-> entries[k].label]

ZeroPair(e) == e.pre = Num(0) /\ e.post = Num(0)

\* C5 (as stated): in each of graphs 22, 24a, 24b and 24c every entity
\* contributes a result, and an entity whose series is empty contributes the
\* zero pair; no entity is omitted.
C5_EmptySeriesGivesZeroPair ==
    pc = "done" =>
        /\ Labels(out.g22) = Countries
        /\ Labels(out.g24a) = Countries
        /\ Labels(out.g24b) = Countries
        /\ Labels(out.g24c) = Countries
        /\ \A k \in 1..3 :
              /\ out.g22[k].rows = <<>> => \A v \in 1..6 : out.g22[k].values[v] = Num(0)
              /\ out.g24a[k].rows = <<>> => ZeroPair(out.g24a[k])
              /\ out.g24b[k].rows = <<>> => ZeroPair(out.g24b[k])
              /\ out.g24c[k].rows = <<>> => ZeroPair(out.g24c[k])

\* the entities of `names` with at least two periods in `df`, in list order
RECURSIVE WithTwoPeriods(_, _, _)
WithTwoPeriods(df, names, j) ==
    IF j > Len(names) THEN <<>>
    ELSE (IF Cardinality(PeriodsOf(df, names[j])) >= 2 THEN <<j>> ELSE <<>>)
         \o WithTwoPeriods(df, names, j + 1)

PlottedOf(df, names) ==
    LET js == WithTwoPeriods(df, names, 1) IN [k \in 1..Len(js) |-> Countries[js[k]]]

\* C5 (amended): graph 24c reports every country, and a country whose series
\* is empty as the zero pair; graphs 22, 24a and 24b report exactly the
\* entities whose series has at least two periods, so an entity with an empty
\* series is omitted there.
C5_EmptySeriesZeroPairOnlyIn24c ==
    pc = "done" =>
        /\ Labels(out.g24c) = Countries
        /\ \A k \in 1..3 : out.g24c[k].rows = <<>> => ZeroPair(out.g24c[k])
        /\ Labels(out.g22) = PlottedOf(data.broadband_traffic, GeoCodes)
        /\ Labels(out.g24a) = PlottedOf(data.internet_usage, Countries)
        /\ Labels(out.g24b) = PlottedOf(data.individual_cloud, GeoCodes)

\* Ireland has two periods and is reported; Germany has one and Switzerland
\* none, and both are left out of graph 24a; graph 24c reports three zero pairs
C5_Witness ==
    /\ pc = "done"
    /\ Labels(out.g24a) = <<"Ireland">>
    /\ Cardinality(PeriodsOf(data.internet_usage, "Germany")) = 1
    /\ PeriodsOf(data.internet_usage, "Switzerland") = {}
    /\ \A k \in 1..3 : out.g24c[k].rows = <<>> /\ ZeroPair(out.g24c[k])

----------------------------------------------------------------------------
(* Year-over-year percent change *)

\* C6: at every position i >= 1 whose prior raw value is 0 the growth value
\* is the missing marker, not an infinity or any other number.
C6_ZeroPriorGivesMissing ==
    \A f \in 1..Len(GrowthFrames) :
        \A j \in 2..Len(GrowthFrames[f].rows) :
            GrowthFrames[f].rows[j - 1][3] = Num(0) => IsNaN(GrowthFrames[f].Growth_Rate[j])

\* C7: the growth value at the first period is the missing marker, and at
\* every later period it is (raw[p_i] - raw[p_(i-1)]) / raw[p_(i-1)] * 100,
\* p_(i-1) being the period just before p_i in the series (stated where the
\* quotient is defined, raw[p_(i-1)] # 0).
C7_PercentChange ==
    \A f \in 1..Len(GrowthFrames) :
        LET rows == GrowthFrames[f].rows
            g == GrowthFrames[f].Growth_Rate
        IN  /\ Len(g) = Len(rows)
            /\ IsNaN(g[1])
            /\ g[1] # Num(0)
            /\ \A j \in 2..Len(rows) :
                  /\ FLt(rows[j - 1][2], rows[j][2])
                  /\ rows[j - 1][3] # Num(0) =>
                        g[j] = FDiv(FMul(FSub(rows[j][3], rows[j - 1][3]), Num(100)),
                                    rows[j - 1][3])

\* 2016: 5, 2017: 2.5 (the mean of 0 and 5), growth -50
C7_Witness ==
    \E f \in 1..Len(GrowthFrames) :
        /\ Len(GrowthFrames[f].rows) = 2
        /\ GrowthFrames[f].rows[1][3] = Num(5)
        /\ GrowthFrames[f].rows[2][3] = Fin(5, 2)
        /\ GrowthFrames[f].Growth_Rate = <<NaN, Num(-50)>>

IsConstant(rows) == \A j \in 1..Len(rows) : rows[j][3] = rows[1][3]

\* C8 (as stated): for a series whose raw value is the same v at all periods,
\* for every v including 0, every growth rate after the first period is 0.
C8_ConstantSeriesZeroGrowth ==
    \A f \in 1..Len(GrowthFrames) :
        IsConstant(GrowthFrames[f].rows) =>
            \A j \in 2..Len(GrowthFrames[f].rows) : GrowthFrames[f].Growth_Rate[j] = Num(0)

\* C8 (amended): for a series whose raw value is the same v # 0 at all
\* periods every growth rate after the first period is 0; for v = 0 every
\* growth rate is the missing marker.
C8_ConstantNonzeroSeriesZeroGrowth ==
    \A f \in 1..Len(GrowthFrames) :
        IsConstant(GrowthFrames[f].rows) =>
            \A j \in 2..Len(GrowthFrames[f].rows) :
                GrowthFrames[f].Growth_Rate[j]
                    = IF GrowthFrames[f].rows[1][3] = Num(0) THEN NaN ELSE Num(0)

C8_Witness ==
    \E f \in 1..Len(GrowthFrames) :
        /\ Len(GrowthFrames[f].rows) = 3
        /\ IsConstant(GrowthFrames[f].rows)
        /\ GrowthFrames[f].rows[1][3] = Num(5)
        /\ GrowthFrames[f].Growth_Rate = <<NaN, Num(0), Num(0)>>

----------------------------------------------------------------------------
(* prepare_oecd_data on its own output, under SpecReshape *)

\* C10 (as stated): the second application returns the table it was given;
\* it drops no row, changes no value and raises no error.
C10_PrepareIsIdempotent ==
    pc = "prep_done" => again.status = "ok" /\ again.table = df_gerd

\* C10 (amended): the second application is not a no-op: it raises
\* ValueError, or it returns a table with no row (the columns Year and Value
\* are melted as year columns, and their names are no numbers).
C10_PrepareAgainYieldsNoRow ==
    pc = "prep_done" =>
        \/ again.status = "ValueError"
        \/ again.status = "ok" /\ again.table.rows = <<>>
                               /\ again.table.cols = df_gerd.cols

C10_Witness ==
    /\ pc = "prep_done"
    /\ Len(df_gerd.rows) = 2
    /\ again.status = "ok"
    /\ again.table.rows = <<>>

----------------------------------------------------------------------------
(* The output of prepare_oecd_data, under SpecReshape *)

Prepared == pc \in {"prep_again", "prep_done"}

\* a header that is a whole year from 2010 on
IsYearText(h) == h # <<>> /\ AllDigits(h) /\ DigitsVal(h) >= 2010

\* the cells (row, column) of a wide table the claim keeps: a whole-year
\* header from 2010 on over a cell that holds a number
KeptCells(df) ==
    {rc \in (1..Len(df.rows)) \X (2..Len(df.cols)) :
        /\ IsYearText(df.cols[rc[2]])
        /\ ~IsNaN(ToNumeric(df.rows[rc[1]][rc[2]]))}

\* C11: every row of the output has a whole year >= 2010 and a numeric
\* value; cells under a header that is no whole year, cells of a year before
\* 2010 and cells whose value is no number are dropped; every other cell
\* appears exactly once as (entity, year, value); no error is raised.
C11_OutputGuarantee ==
    Prepared =>
        /\ err = "none"
        /\ \A r \in 1..Len(df_gerd.rows) :
              /\ IsFin(df_gerd.rows[r][2])
              /\ df_gerd.rows[r][2].d = 1
              /\ df_gerd.rows[r][2].n >= 2010
              /\ IsFin(df_gerd.rows[r][3]) \/ IsInf(df_gerd.rows[r][3])
        /\ Len(df_gerd.rows) = Cardinality(KeptCells(data.gerd))
        /\ \A rc \in KeptCells(data.gerd) :
              \E r \in 1..Len(df_gerd.rows) :
                  df_gerd.rows[r] = <<data.gerd.rows[rc[1]][1],
                                      Num(DigitsVal(data.gerd.cols[rc[2]])),
                                      ToNumeric(data.gerd.rows[rc[1]][rc[2]])>>

----------------------------------------------------------------------------
(* The aggregation, under SpecAggregate *)

\* the rows the aggregation is given: a plotted country, a period from 2010
AggInput ==
    {j \in 1..Len(data.broadband_traffic.rows) :
        /\ data.broadband_traffic.rows[j][1].s[1] \in {"DE", "IE", "CH"}
        /\ data.broadband_traffic.rows[j][2].n >= 2010 * data.broadband_traffic.rows[j][2].d}

AggKey(j) == <<data.broadband_traffic.rows[j][1], data.broadband_traffic.rows[j][2]>>
AggGroup(key) == {j \in AggInput : AggKey(j) = key}

\* the mean of the values of the rows S that have one; missing when none has
MeanOver(S) ==
    LET values == Col3(data.broadband_traffic.rows)
        present == {j \in S : ~IsNaN(values[j])}
    IN  IF present = {} THEN NaN
        ELSE FDiv(SumOver(values, present), Num(Cardinality(present)))

\* C12: the aggregated table has exactly one row per (entity, period) group
\* of its input and no other row; the row's value is the arithmetic mean of
\* the group's values; the value of a group of one observation is that
\* observation's value.
C12_OneRowPerGroupWithMean ==
    pc # "g15" =>
        /\ Len(df_clean.rows) = Cardinality({AggKey(j) : j \in AggInput})
        /\ \A j \in AggInput :
              /\ Cardinality({r \in 1..Len(df_clean.rows) :
                                 <<df_clean.rows[r][1], df_clean.rows[r][2]>> = AggKey(j)}) = 1
              /\ \A r \in 1..Len(df_clean.rows) :
                    <<df_clean.rows[r][1], df_clean.rows[r][2]>> = AggKey(j) =>
                        /\ df_clean.rows[r][3] = MeanOver(AggGroup(AggKey(j)))
                        /\ AggGroup(AggKey(j)) = {j} =>
                               df_clean.rows[r][3] = data.broadband_traffic.rows[j][3]

\* Germany 2017 observed as 1 and 5 (mean 3), Germany 2018 observed once
C12_Witness ==
    /\ pc = "agg_done"
    /\ Len(data.broadband_traffic.rows) = 3
    /\ df_clean.rows = <<<<Str(<<"DE">>), Num(2017), Num(3)>>,
                         <<Str(<<"DE">>), Num(2018), Num(5)>>>>

\* C13: the aggregated table and the sorted per-entity series that are
\* plotted are the same for a table and for every reordering of its rows.
C13_PermutationInvariant ==
    pc = "agg_done" =>
        /\ shuffled.clean = df_clean
        /\ shuffled.lines = out.g15

\* rows in another order, a group of two different values, a line plotted
C13_Witness ==
    /\ pc = "agg_done"
    /\ shuffled.table.rows # data.broadband_traffic.rows
    /\ \E a, b \in AggInput :
          /\ AggKey(a) = AggKey(b)
          /\ data.broadband_traffic.rows[a][3] = Num(1)
          /\ data.broadband_traffic.rows[b][3] = Num(5)
    /\ shuffled.lines = out.g15
    /\ Len(out.g15) = 2

----------------------------------------------------------------------------
(* Order of the periods of a series *)

StrictlyIncreasing(xs) == \A j \in 2..Len(xs) : FLt(xs[j - 1], xs[j])

\* C14: every per-entity series handed to plotting (graphs 5 and 19), to the
\* cumulative-index loop (graph 19) or to the percent change (graphs 22, 24a
\* and 24b) has strictly increasing periods, so no period occurs twice.
C14_PeriodsStrictlyIncrease ==
    /\ \A k \in 1..Len(out.g5) : StrictlyIncreasing(out.g5[k].x)
    /\ \A k \in 1..Len(out.g19) : StrictlyIncreasing(out.g19[k].x)
    /\ \A f \in 1..Len(GrowthFrames) : StrictlyIncreasing(Col2(GrowthFrames[f].rows))

----------------------------------------------------------------------------
(* Absent data *)

Absent(rows, entity) == OfEntity(rows, entity) = <<>>

LabelSet(entries) == {entries[k].label : k \in 1..Len(entries)}

\* graphs 5, 19, 20, 22, 24a and 24b: a country without rows gets no line and
\* no bars, and a year without a row is a missing point of graph 20
AbsentSkippedOrMissing ==
    LET gerd == prepare_oecd_data(data.gerd).rows
        traffic == Clean(data.broadband_traffic, GeoCodes)
        usage == Clean(data.internet_usage, Countries)
        cloud == Clean(data.individual_cloud, GeoCodes)
    IN  \A c \in 1..Len(Countries) :
           /\ Absent(gerd, Countries[c]) =>
                 Countries[c] \notin LabelSet(out.g5) \cup LabelSet(out.g19)
           /\ Absent(traffic, GeoCodes[c]) => Countries[c] \notin LabelSet(out.g22)
           /\ Absent(usage, Countries[c]) => Countries[c] \notin LabelSet(out.g24a)
           /\ Absent(cloud, GeoCodes[c]) => Countries[c] \notin LabelSet(out.g24b)
           /\ \A f \in 1..Len(out.g20) : \A k \in 1..5 :
                 (\A j \in 1..Len(gerd) :
                      ~(/\ gerd[j][1] = Str(<<Countries[c]>>)
                        /\ gerd[j][2] = Num(out.g20[f].years_range[k])))
                 => IsNaN(out.g20[f].bars[c].values[k])

\* C18 (as stated): no chart block raises, and an entity without observations,
\* or without an observation for a requested year, has its line or bar
\* skipped or left as a missing point, in every chart block.
C18_AbsentSkippedNeverFatal ==
    /\ err = "none"
    /\ pc # "aborted"
    /\ AbsentSkippedOrMissing
    /\ \A c \in 1..Len(Countries) :
          Absent(prepare_oecd_data(data.gerd).rows, Countries[c])
          => Countries[c] \notin LabelSet(out.g24c)

\* C18 (amended): no chart block raises; an entity without observations gets
\* no line in graphs 5 and 19 and no bars in graphs 22, 24a and 24b, a year
\* without an observation is a missing point of graph 20, and graph 24c draws
\* two bars of height 0 for a country without observations.
C18_AbsentNeverFatalZeroBarsIn24c ==
    /\ err = "none"
    /\ pc # "aborted"
    /\ AbsentSkippedOrMissing
    /\ pc = "done" =>
          \A c \in 1..Len(Countries) :
             Absent(prepare_oecd_data(data.gerd).rows, Countries[c])
             => /\ out.g24c[c].label = Countries[c]
                /\ ZeroPair(out.g24c[c])

\* Germany has one observation, for 2017, and Ireland none: graph 5 draws the
\* line of Germany alone, the GDPR figure of graph 20 has Germany's bar for
\* 2017 and a missing point for 2018, and graph 24c draws zero bars for Ireland
C18_Witness ==
    /\ pc = "done"
    /\ err = "none"
    /\ Labels(out.g5) = <<"Germany">>
    /\ out.g20[1].bars[1].values[2] = Fin(36, 10)
    /\ IsNaN(out.g20[1].bars[1].values[3])
    /\ \A k \in 1..5 : IsNaN(out.g20[1].bars[2].values[k])
    /\ Absent(prepare_oecd_data(data.gerd).rows, "Ireland")
    /\ ZeroPair(out.g24c[2])

----------------------------------------------------------------------------
(* Regulation timeline *)

\* x is year + (month - 1)/12 of the date, as an equation between integers
AtFractionalYear(x, date) ==
    /\ x.k = "fin"
    /\ 12 * x.n = (12 * date.year + date.month - 1) * x.d

\* the iterations of the loop that are over
Visited == IF pc = "axvspan" THEN {} ELSE 1..(i - 1)

\* the drawn milestones, in the order of the registry
DrawnMilestones == SelectSeq(REGULATIONS, LAMBDA r : r.date.year >= start_year)

\* C19: every date is placed at exactly year + (month - 1)/12: both ends of
\* the shaded interval and every vertical marker and its label (0.1 to the
\* right of the marker); the GDPR marker (25 May 2018) is at 2018 + 4/12.
C19_FractionalYearPlacement ==
    /\ \A k \in 1..Len(ax.spans) :
          /\ AtFractionalYear(ax.spans[k][1], COVID_START)
          /\ AtFractionalYear(ax.spans[k][2], COVID_END)
    /\ Len(ax.vlines) = Len(ax.texts)
    /\ \A k \in 1..Len(ax.texts) :
          \E r \in 1..Len(REGULATIONS) :
             /\ REGULATIONS[r].name = ax.texts[k].s
             /\ AtFractionalYear(ax.vlines[k].x, REGULATIONS[r].date)
             /\ ax.texts[k].x = FAdd(ax.vlines[k].x, Fin(1, 10))
             /\ REGULATIONS[r].date.month = 5 =>
                   ax.vlines[k].x = FAdd(Num(REGULATIONS[r].date.year), Fin(4, 12))
             /\ ax.texts[k].s = "GDPR" => ax.vlines[k].x = Fin(6055, 3)

\* the call with start_year 2018 has returned: the interval is shaded from
\* 2020 + 2/12 to 2023 + 4/12 and the GDPR marker is the first, at 6055/3
C19_Witness ==
    /\ pc = "returned"
    /\ start_year = 2018
    /\ ax.spans = <<<<Fin(12121, 6), Fin(6070, 3)>>>>
    /\ Len(ax.vlines) = 4
    /\ ax.texts[1].s = "GDPR"
    /\ ax.vlines[1].x = Fin(6055, 3)

\* C20: a milestone's marker and label are drawn if and only if its year is
\* >= start_year, each drawn milestone once, in registry order; with the
\* default start_year all four are drawn.
C20_MilestonesFromStartYear ==
    /\ \A r \in Visited :
          LET n == Cardinality({k \in 1..Len(ax.texts) : ax.texts[k].s = REGULATIONS[r].name})
              m == Cardinality({k \in 1..Len(ax.vlines) : ax.vlines[k].x = XPos(REGULATIONS[r].date)})
          IN  IF REGULATIONS[r].date.year >= start_year
              THEN n = 1 /\ m = 1
              ELSE n = 0 /\ m = 0
    /\ \A r \in (1..Len(REGULATIONS)) \ Visited :
          \A k \in 1..Len(ax.texts) : ax.texts[k].s # REGULATIONS[r].name
    /\ pc = "returned" =>
          /\ [k \in 1..Len(ax.texts) |-> ax.texts[k].s]
                = [k \in 1..Len(DrawnMilestones) |-> DrawnMilestones[k].name]
          /\ start_year = DefaultStartYear => Len(ax.vlines) = 4 /\ Len(ax.texts) = 4

\* start_year 2023: GDPR (2018) and DSA (2022) are left out, DMA (2023, the
\* boundary year) and the AI Act (2025) are drawn
C20_Witness ==
    /\ pc = "returned"
    /\ start_year = 2023
    /\ [k \in 1..Len(ax.texts) |-> ax.texts[k].s] = <<"DMA", "AI Act">>
    /\ Len(ax.vlines) = 2

----------------------------------------------------------------------------
(* The run *)

\* C15: when an input file is missing, the run ends in load_data: no figure
\* has been opened and no artifact written, and no chart block is entered.
C15_MissingFileFailsAtStartup ==
    missing # {} =>
        /\ pc \in {"load", "aborted"}
        /\ opened = 0
        /\ written = <<>>

SavedOnce(f) == Cardinality({k \in 1..Len(written) : written[k].fig = f}) = 1

\* C16: at most one figure is open at any time; a figure is written before it
\* is closed; and whenever the script stands between two figures, or at its
\* end, no figure is open and every figure opened so far has been written
\* exactly once.
C16_FigureWrittenOnceThenClosed ==
    /\ Len(figs) <= 1
    /\ pc = "close" => SavedOnce(figs[Len(figs)])
    /\ pc \in {"open", "geo", "print", "done"} =>
          /\ figs = <<>>
          /\ \A f \in 1..opened : SavedOnce(f)

\* C17: no step after load_data changes the loaded dictionary.
C17_LoadedTablesUnchanged == [][pc # "load" => data' = data]_vars

\* C21: the completion message is printed at most once, by the last step of
\* the run, after every figure's block has been entered and none has raised;
\* a run that an exception has ended prints nothing.
C21_CompletionMessageLast ==
    [][/\ stdout = <<>>
       /\ err' # "none" => stdout' = <<>>
       /\ stdout' # <<>> =>
             /\ stdout' = <<"All graphs completed successfully!">>
             /\ err = "none"
             /\ pc = "print"
             /\ pc' = "done"
             /\ blk = Len(Script)
             /\ opened = Len(Script)]_vars

\* the run is over, with its 51 artifacts written and the message printed
C21_Witness ==
    /\ pc = "done"
    /\ stdout = <<"All graphs completed successfully!">>
    /\ err = "none"
    /\ Len(written) = Len(Script)

----------------------------------------------------------------------------
(* Independence of the chart blocks *)

\* what the block of figure k does with the loaded tables and the files,
\* taken by itself: whether it writes its artifact
WritesAlone(k) ==
    CASE Script[k].kind = "g16" ->
             OfEntity(PricesClean(data.broadband_prices), Script[k].arg) # <<>>
      [] Script[k].kind = "g42" ->
             \A j \in 1..Len(data.vpn_searches.rows) :
                ~IsRaised(ToDatetime(data.vpn_searches.rows[j][1]))
      [] Script[k].kind = "choropleth" ->
             \A g \in 1..Len(GeoFiles) : GeoFiles[g] \notin missing
      [] OTHER -> TRUE

\* C22: whatever the order of the blocks, when the run is over the artifacts
\* written are those each block writes taken by itself, each once: no
\* block's artifact depends on the blocks executed before it.
C22_ArtifactsIndependentOfOrder ==
    pc \in {"done", "aborted"} =>
        /\ {written[j].file : j \in 1..Len(written)}
              = {Script[k].file : k \in {b \in 1..Len(Script) : WritesAlone(b)}}
        /\ \A a, b \in 1..Len(written) : a # b => written[a].file # written[b].file

----------------------------------------------------------------------------
(* Termination *)

----------------------------------------------------------------------------
(* The growth values the cumulative-index fold reads *)

\* the cells of the loaded R&D table that hold a growth value of `country`
\* for a year from 2010 on
PresentCells(country) ==
    {cell \in (1..Len(data.gerd.rows)) \X (2..Len(data.gerd.cols)) :
        /\ data.gerd.rows[cell[1]][1] = Str(<<country>>)
        /\ FGe(ParseNumber(data.gerd.cols[cell[2]]), Num(MinYear))
        /\ ~IsNaN(ToNumeric(data.gerd.rows[cell[1]][cell[2]]))}

\* C24: every growth value the fold of graph 19 reads is present; a line has
\* one index point per present cell of its country, so a period whose growth
\* is missing has none, and every index after the first is chained from the
\* index of the retained period before it.
C24_NoMissingGrowthInFold ==
    \A k \in 1..Len(out.g19) :
        LET line == out.g19[k]
        IN  /\ \A j \in 1..Len(line.Value) : ~IsNaN(line.Value[j])
            /\ Len(line.x) = Cardinality(PresentCells(line.label))
            /\ Len(line.y) = Len(line.x)
            /\ line.y[1] = Num(BaseIndex)
            /\ \A j \in 2..Len(line.y) :
                   line.y[j] = FMul(line.y[j - 1], FAdd(Num(1), FDiv(line.Value[j], Num(100))))

\* Germany's growth of 2018 is missing between those of 2017 and 2019: the
\* line has the two points 2017 and 2019
C24_Witness ==
    /\ \E k \in 1..Len(out.g19) : out.g19[k].x = <<Num(2017), Num(2019)>>
    /\ \E c \in 2..Len(data.gerd.cols) :
           /\ data.gerd.cols[c] = <<"2", "0", "1", "8">>
           /\ Len(data.gerd.rows) = 1
           /\ IsNaN(ToNumeric(data.gerd.rows[1][c]))

----------------------------------------------------------------------------
(* The pre-cutoff mean of a series whose first period alone is before the
   cutoff *)

\* a series of two periods or more of which the first, and no other, is
\* before `year`
OnlyFirstBefore(rows, year) ==
    /\ Len(rows) >= 2
    /\ FLt(rows[1][2], Num(year))
    /\ \A j \in 2..Len(rows) : ~FLt(rows[j][2], Num(year))

\* C25: in graphs 22, 24a and 24b a series of two periods or more whose only
\* period before the cutoff is its first has a pre-cutoff mean of exactly 0,
\* although a period is before the cutoff.
C25_FirstPeriodAlonePreMeanZero ==
    /\ \A k \in 1..Len(out.g24a) :
           OnlyFirstBefore(out.g24a[k].rows, cutoff_year) => out.g24a[k].pre = Num(0)
    /\ \A k \in 1..Len(out.g24b) :
           OnlyFirstBefore(out.g24b[k].rows, cutoff_year) => out.g24b[k].pre = Num(0)
    /\ \A k \in 1..Len(out.g22) : \A j \in 1..Len(reg_years) :
           OnlyFirstBefore(out.g22[k].rows, reg_years[j])
               => out.g22[k].values[2 * j - 1] = Num(0)

\* graph 24a has drawn a series with the periods 2017 and 2018 whose value
\* changed: the pre-2018 bar is 0, the other is not
C25_Witness ==
    \E k \in 1..Len(out.g24a) :
        /\ OnlyFirstBefore(out.g24a[k].rows, cutoff_year)
        /\ Col2(out.g24a[k].rows) = <<Num(2017), Num(2018)>>
        /\ out.g24a[k].pre = Num(0)
        /\ out.g24a[k].post # Num(0)

----------------------------------------------------------------------------
(* Artifact names *)

\* C26: no two saves of a run write the same file name.
C26_DistinctArtifactNames ==
    \A a, b \in 1..Len(written) : a # b => written[a].file # written[b].file

\* a run has saved all 51 figures, under 51 names
C26_Witness ==
    /\ pc = "done"
    /\ Len(written) = Len(Script)
    /\ Cardinality({written[a].file : a \in 1..Len(written)}) = 51

----------------------------------------------------------------------------
(* The year filter on long tables *)

FromMinYearOnly(rows) == \A j \in 1..Len(rows) : FGe(rows[j][2], Num(MinYear))

\* C27: every aggregated series built from a long table has only periods
\* from 2010 on: the aggregated table of graphs 22, 24a and 24b and the
\* series their growth rates and pre/post means are computed from.
C27_AggregatedPeriodsFromMinYear ==
    /\ FromMinYearOnly(df_clean.rows)
    /\ \A k \in 1..Len(out.g22) : FromMinYearOnly(out.g22[k].rows)
    /\ \A k \in 1..Len(out.g24a) : FromMinYearOnly(out.g24a[k].rows)
    /\ \A k \in 1..Len(out.g24b) : FromMinYearOnly(out.g24b[k].rows)

\* graph 24a has aggregated a table that holds a row of 2009 for Germany,
\* and drawn Germany's bars
C27_Witness ==
    /\ pc = "g24b"
    /\ \E j \in 1..Len(data.internet_usage.rows) :
           /\ data.internet_usage.rows[j][1] = Str(<<"Germany">>)
           /\ data.internet_usage.rows[j][2] = Num(2009)
    /\ \E k \in 1..Len(out.g24a) : out.g24a[k].label = "Germany"

----------------------------------------------------------------------------
(* The day of the month *)

\* days of the month a date is moved to
DaysTried == {1, 2, 15, 28}

\* x is where the date is placed, whatever its day of the month, and lies in
\* [year, year + 11/12]
DayIgnored(x, date) ==
    /\ \A d \in DaysTried : x = XPos([date EXCEPT !.day = d])
    /\ FGe(x, Num(date.year))
    /\ FGe(FAdd(Num(date.year), Fin(11, 12)), x)

\* C28: the placement of a date ignores its day of the month and lies in
\* [year, year + 11/12]; the end of the shaded interval (1 May 2023) and the
\* DMA marker (2 May 2023) are at the same position, 2023 + 4/12.
C28_DayOfMonthIgnored ==
    /\ \A k \in 1..Len(ax.spans) :
          /\ DayIgnored(ax.spans[k][1], COVID_START)
          /\ DayIgnored(ax.spans[k][2], COVID_END)
          /\ ax.spans[k][2] = FAdd(Num(2023), Fin(4, 12))
    /\ \A k \in 1..Len(ax.vlines) :
          /\ DayIgnored(ax.vlines[k].x, REGULATIONS[CHOOSE r \in 1..Len(REGULATIONS) :
                                                       REGULATIONS[r].name = ax.texts[k].s].date)
          /\ ax.texts[k].s = "DMA" =>
                 /\ ax.vlines[k].x = FAdd(Num(2023), Fin(4, 12))
                 /\ \A j \in 1..Len(ax.spans) : ax.vlines[k].x = ax.spans[j][2]

\* the call has returned with the interval shaded and the DMA marker drawn,
\* both at 6070/3
C28_Witness ==
    /\ pc = "returned"
    /\ Len(ax.spans) = 1
    /\ ax.spans[1][2] = Fin(6070, 3)
    /\ \E k \in 1..Len(ax.vlines) : ax.texts[k].s = "DMA" /\ ax.vlines[k].x = Fin(6070, 3)

----------------------------------------------------------------------------
(* Cutoff years and the registry of milestones *)

\* the years of the registry's dates
MilestoneYears == {REGULATIONS[r].date.year : r \in 1..Len(REGULATIONS)}

\* a label of graph 20 read as "<name> (<year>)"
LabelParts(label) ==
    CASE label = "GDPR (2018)" -> [name |-> "GDPR", year |-> 2018]
      [] label = "DSA (2022)" -> [name |-> "DSA", year |-> 2022]
      [] label = "DMA (2023)" -> [name |-> "DMA", year |-> 2023]
      [] label = "AI Act (2025)" -> [name |-> "AI Act", year |-> 2025]

\* C29: the cutoff years the chart blocks hard-code are years of milestones
\* of the registry: the middle year of every figure of graph 20, under the
\* name of the milestone of that year, the three years of graph 22 and the
\* cutoff year of graphs 24a-c.
C29_CutoffYearsAreMilestoneYears ==
    /\ \A k \in 1..Len(out.g20) :
          \E r \in 1..Len(REGULATIONS) :
             /\ out.g20[k].years_range[3] = REGULATIONS[r].date.year
             /\ LabelParts(out.g20[k].name).name = REGULATIONS[r].name
             /\ LabelParts(out.g20[k].name).year = REGULATIONS[r].date.year
    /\ \A k \in 1..Len(out.g22) :
          /\ Len(out.g22[k].values) = 2 * Len(reg_years)
          /\ \A j \in 1..Len(reg_years) : reg_years[j] \in MilestoneYears
    /\ (out.g24a # <<>> \/ out.g24b # <<>> \/ out.g24c # <<>>) => cutoff_year \in MilestoneYears
    /\ {reg_dates[j] : j \in 1..Len(reg_dates)} = {2018, 2022, 2023, 2025}
    /\ {reg_years[j] : j \in 1..Len(reg_years)} = {2018, 2022, 2023}
    /\ cutoff_year = 2018

\* graph 20 has drawn its four figures, the third for the DMA around 2023,
\* and graph 22 its bars
C29_Witness ==
    /\ Len(out.g20) = 4
    /\ out.g20[3].name = "DMA (2023)"
    /\ out.g20[3].years_range[3] = 2023
    /\ out.g22 # <<>>

----------------------------------------------------------------------------
(* SpecLayout: the outlines of create_choropleth_comparison *)

\* longest side of an outline's bounding box in the files read
MaxSide == 2

\* an outline is its vertices <<x, y>>; the files hold, at one of two
\* lower-left corners, a triangle w wide and h high (w = 0 or h = 0: a
\* segment or a point)
Corners == {<<-10, 51>>, <<6, 47>>}

Outline(corner, w, h) ==
    <<<<Num(corner[1]), Num(corner[2])>>,
      <<Num(corner[1] + w), Num(corner[2])>>,
      <<Num(corner[1]), Num(corner[2] + h)>>>>

Outlines == {Outline(c, w, h) : c \in Corners, w \in 0..MaxSide, h \in 0..MaxSide}

\* the least and the greatest of a sequence of finite numbers
MinOf(xs) == xs[CHOOSE a \in 1..Len(xs) : \A b \in 1..Len(xs) : ~FLt(xs[b], xs[a])]
MaxOf(xs) == xs[CHOOSE a \in 1..Len(xs) : \A b \in 1..Len(xs) : ~FLt(xs[a], xs[b])]

\* gdf.total_bounds: minx, miny, maxx, maxy
total_bounds(gdf) ==
    LET xs == [k \in 1..Len(gdf) |-> gdf[k][1]]
        ys == [k \in 1..Len(gdf) |-> gdf[k][2]]
    IN  <<MinOf(xs), MinOf(ys), MaxOf(xs), MaxOf(ys)>>

\* geometry.translate(xoff, yoff)
Translate(gdf, xoff, yoff) ==
    [k \in 1..Len(gdf) |-> <<FAdd(gdf[k][1], xoff), FAdd(gdf[k][2], yoff)>>]

\* geometry.scale(xfact, yfact, origin=(0, 0))
Scale(gdf, xfact, yfact) ==
    [k \in 1..Len(gdf) |-> <<FMul(xfact, gdf[k][1]), FMul(yfact, gdf[k][2])>>]

\* max(width, height) of Python: the first argument unless the second is greater
Max2(a, b) == IF FLt(a, b) THEN b ELSE a

\* normalize_geometry scaling by the width alone
NormalizeByWidth(gdf) ==
    LET bounds == total_bounds(gdf)
        width == FSub(bounds[3], bounds[1])
    IN  Scale(Translate(gdf, FNeg(bounds[1]), FNeg(bounds[2])),
              FDiv(Num(1), width), FDiv(Num(1), width))

\* normalize_geometry(gdf)
normalize_geometry(gdf) ==
    LET bounds == total_bounds(gdf)
        width == FSub(bounds[3], bounds[1])
        height == FSub(bounds[4], bounds[2])
        scale == Max2(width, height)
    IN  Scale(Translate(gdf, FNeg(bounds[1]), FNeg(bounds[2])),
              FDiv(Num(1), scale), FDiv(Num(1), scale))

spacing == Fin(3, 10)

\* the three files are read (Ireland filtered and dissolved)
InitLayout ==
    /\ pc = "normalize_germany"
    /\ \E g \in Outlines, e \in Outlines, c \in Outlines :
          gdfs = [NoOutlines EXCEPT !.germany = g, !.ireland = e, !.switzerland = c]
    /\ ax = NoAxes
    /\ start_year = DefaultStartYear
    /\ i = 0
    /\ data = Tables(EmptyWide, EmptyTable(GeoCols), EmptyTable(UsageCols), EmptyTable(GeoCols))
    /\ df_gerd = NoFrame
    /\ out = NoOut
    /\ again = NoAgain
    /\ cd = NoFold
    /\ df_clean = NoFrame
    /\ shuffled = NoShuffled
    /\ IdleLifecycle

LayoutStep(from, to, next) ==
    /\ pc = from
    /\ gdfs' = next
    /\ pc' = to
    /\ UNCHANGED <<data, df_gerd, out, again, cd, i, df_clean, shuffled, lifecycle,
                   ax, start_year>>

\* germany_norm = normalize_geometry(germany)
NormalizeGermany ==
    LayoutStep("normalize_germany", "normalize_ireland",
               [gdfs EXCEPT !.germany_norm = normalize_geometry(gdfs.germany)])

\* ireland_norm = normalize_geometry(ireland)
NormalizeIreland ==
    LayoutStep("normalize_ireland", "normalize_switzerland",
               [gdfs EXCEPT !.ireland_norm = normalize_geometry(gdfs.ireland)])

\* switzerland_norm = normalize_geometry(switzerland)
NormalizeSwitzerland ==
    LayoutStep("normalize_switzerland", "translate_ireland",
               [gdfs EXCEPT !.switzerland_norm = normalize_geometry(gdfs.switzerland)])

\* ireland_norm.geometry.translate(xoff=0, yoff=0)
TranslateIreland ==
    LayoutStep("translate_ireland", "translate_germany",
               [gdfs EXCEPT !.ireland_norm = Translate(@, Num(0), Num(0))])

\* germany_norm.geometry.translate(xoff=1 + spacing, yoff=0)
TranslateGermany ==
    LayoutStep("translate_germany", "translate_switzerland",
               [gdfs EXCEPT !.germany_norm = Translate(@, FAdd(Num(1), spacing), Num(0))])

\* switzerland_norm.geometry.translate(xoff=2 + 2*spacing, yoff=0)
TranslateSwitzerland ==
    LayoutStep("translate_switzerland", "laid_out",
               [gdfs EXCEPT !.switzerland_norm =
                    Translate(@, FAdd(Num(2), FMul(Num(2), spacing)), Num(0))])

NextLayout ==
    \/ NormalizeGermany
    \/ NormalizeIreland
    \/ NormalizeSwitzerland
    \/ TranslateIreland
    \/ TranslateGermany
    \/ TranslateSwitzerland

SpecLayout == InitLayout /\ [][NextLayout]_vars

----------------------------------------------------------------------------
(* Choropleth layout *)

\* a region: its bounding box has a width and a height
NonDegenerate(gdf) ==
    LET b == total_bounds(gdf) IN FLt(b[1], b[3]) /\ FLt(b[2], b[4])

\* the normalised outline is in the unit square at x = xoff: lower-left
\* corner (xoff, 0), sides <= 1, the larger side 1, the sides in the ratio
\* of the sides of the outline read
InUnitSquareAt(norm, gdf, xoff) ==
    LET b == total_bounds(norm)
        a == total_bounds(gdf)
        w == FSub(b[3], b[1])
        h == FSub(b[4], b[2])
    IN  /\ b[1] = xoff
        /\ b[2] = Num(0)
        /\ FGe(Num(1), w)
        /\ FGe(Num(1), h)
        /\ Max2(w, h) = Num(1)
        /\ FMul(w, FSub(a[4], a[2])) = FMul(h, FSub(a[3], a[1]))

\* C30: for an outline with a width and a height normalize_geometry yields
\* a bounding box with lower-left corner (0, 0), both sides <= 1 and the
\* larger side 1, the aspect ratio kept; moved by 0, 1.3 and 2.6 the boxes
\* of Ireland, Germany and Switzerland are pairwise disjoint in x.
C30_ChoroplethLayout ==
    /\ (pc # "normalize_germany" /\ NonDegenerate(gdfs.germany)) =>
          InUnitSquareAt(gdfs.germany_norm, gdfs.germany,
                         IF pc \in {"translate_switzerland", "laid_out"}
                         THEN Fin(13, 10) ELSE Num(0))
    /\ (pc \notin {"normalize_germany", "normalize_ireland"} /\ NonDegenerate(gdfs.ireland)) =>
          InUnitSquareAt(gdfs.ireland_norm, gdfs.ireland, Num(0))
    /\ (pc \in {"translate_ireland", "translate_germany", "translate_switzerland", "laid_out"}
           /\ NonDegenerate(gdfs.switzerland)) =>
          InUnitSquareAt(gdfs.switzerland_norm, gdfs.switzerland,
                         IF pc = "laid_out" THEN Fin(26, 10) ELSE Num(0))
    /\ (/\ pc = "laid_out"
        /\ NonDegenerate(gdfs.germany)
        /\ NonDegenerate(gdfs.ireland)
        /\ NonDegenerate(gdfs.switzerland)) =>
          /\ FLt(total_bounds(gdfs.ireland_norm)[3], total_bounds(gdfs.germany_norm)[1])
          /\ FLt(total_bounds(gdfs.germany_norm)[3], total_bounds(gdfs.switzerland_norm)[1])

\* the three outlines are laid out: Ireland wider than high, Germany higher
\* than wide, Switzerland's box from 2.6 to 3.6
C30_Witness ==
    /\ pc = "laid_out"
    /\ NonDegenerate(gdfs.germany)
    /\ NonDegenerate(gdfs.switzerland)
    /\ total_bounds(gdfs.ireland_norm) = <<Num(0), Num(0), Num(1), Fin(1, 2)>>
    /\ total_bounds(gdfs.germany_norm) = <<Fin(13, 10), Num(0), Fin(18, 10), Fin(1, 1)>>
    /\ total_bounds(gdfs.switzerland_norm)[1] = Fin(26, 10)
    /\ total_bounds(gdfs.switzerland_norm)[3] = Fin(36, 10)

====
